---- MODULE Spec2Model ----
(***************************************************************************)
(* Verification model of the hd-recon-v3 matching pipeline:                *)
(*   - LineMatcher.searchLine and its three search strategies              *)
(*     (srv/lib/line-matcher.js),                                          *)
(*   - the payment-note line parser (line-parser),                         *)
(*   - the company-name extractor and the two email scorers/searches       *)
(*     (srv/lib/email-matcher.js, srv/lib/email-summarizer.js).            *)
(*                                                                         *)
(* Strings are sequences of one-character strings.  Confidences are kept   *)
(* in tenths of a percent (85.0% = 850), backend scores and similarities   *)
(* in thousandths (1.0 = 1000), so that the code's one-decimal rounding is *)
(* exact integer arithmetic.                                               *)
(***************************************************************************)
EXTENDS Integers, Sequences, FiniteSets, TLC

VARIABLES
    slPc,        \* position of the searchLine invocation
    slText,      \* its lineText argument
    strat,       \* per strategy: promise status, backend rows, call count
    slResult,    \* the list searchLine returned
    dbConnects,  \* number of cds.connect.to('db') requests
    note,        \* the raw payment notes handed to the parser
    parsePc,     \* "idle", "parsed" (parsePaymentNotes ran), "extracted"
    lines,       \* the list parsePaymentNotes returned
    extraction,  \* what extractCompanyName returned
    llm,         \* whether the LLM backend is reachable: "up" or "down"
    sePc,        \* scorer call: "idle" or "scored"
    seKind,      \* which scorer: "cached" or "inbox"
    seEmail,     \* the email record it is called with
    seCompany,   \* its companyName argument
    seAmount,    \* its amount argument
    seScore,     \* the score it returned, in hundredths of a point
    seFormatted, \* the display record formatCachedEmailResults made of it
    esPc,        \* email search: "idle", "embedding", "querying", "returned", "threw"
    esKind,      \* which search: "cached" (searchCachedEmails) or "inbox" (searchInbox)
    esArgs,      \* its arguments
    esRange,     \* the date range handed to the backend query, if any
    esQueries,   \* number of backend queries issued (db.run, executeHttpRequest)
    esRows,      \* the rows the backend delivered to the search
    esResult,    \* the list the search returned
    esError,     \* what made the search fail, "none" when nothing did
    paPc,        \* parseActionItems call: "idle" or "returned"
    paSummary,   \* its summary argument (the LLM response text)
    paResult,    \* the record of accounting fields it returned
    ccPc,        \* company-name chain: "idle", "llm", "waiting", "done"
    ccResponse,  \* the text the LLM answered with, if it answered
    ccResult,    \* what extractCompanyNameWithChatGPT returned
    llmCalls,    \* number of chatCompletion requests sent
    asPc,        \* addStatement: "idle", "lines", "done", "failed"
    asLines,     \* the line texts its parsePaymentNotes returned
    asIndex,     \* number of lines the loop has processed
    asFound,     \* per processed line, the list fuzzyTextSearch returned
    stHeader,    \* matchStatus of the BankStatementHeader row
    stLines,     \* the BankStatementLine rows
    stMatches,   \* the LineMatch rows
    sync,        \* per syncEmails invocation: position, fetched ids, new ids
    cache        \* the EmailCache rows, in insertion order

matchVars == <<slPc, slText, strat, slResult, dbConnects>>

parseVars == <<note, parsePc, lines, extraction, llm>>

scoreVars == <<sePc, seKind, seEmail, seCompany, seAmount, seScore, seFormatted>>

searchVars == <<esPc, esKind, esArgs, esRange, esQueries, esRows, esResult, esError>>

summaryVars == <<paPc, paSummary, paResult>>

chainVars == <<ccPc, ccResponse, ccResult, llmCalls>>

statementVars == <<asPc, asLines, asIndex, asFound, stHeader, stLines, stMatches>>

syncVars == <<sync, cache>>

storeVars == <<statementVars, syncVars>>

vars == <<matchVars, parseVars, scoreVars, searchVars, summaryVars, chainVars, storeVars>>

\* JavaScript null/undefined: a value that is no text (texts are sequences of
\* one-character strings) and no record
NULL == <<"null">>

(***************************************************************************)
(* Bounds of the model.                                                    *)
(***************************************************************************)
\* number of distinct Historical record IDs the backends can return
NumIds == 2
\* rows one strategy call may deliver (the code's SQL says LIMIT 10)
MaxHits == 2
\* rows delivered by all strategy calls of one invocation together
MaxTotalHits == 3
\* characters of a note spelled character by character
MaxSepChars == 4
\* key-word fragments of a note built for classification
MaxTypeFrags == 2
\* fragments of a note built from buyer-order markers
MaxBoFrags == 4
\* rows the database may hold that match one statement line
MaxMatching == 4
\* concurrent invocations of syncEmails
NumSyncs == 2
\* distinct Graph API message ids
NumMessages == 2
\* messages one fetch may deliver
MaxFetch == 2
\* elements of a list handed to extractCompanyName by a caller
MaxElements == 3
\* rows one email query may deliver
MaxRows == 11
\* the highest ID of the generated rows of the email cache
MaxCacheId == 14

(***************************************************************************)
(* Characters and text helpers.                                            *)
(***************************************************************************)
SP == " "
LF == "\n"
CR == "\r"
TAB == "\t"
BSL == "\\"

\* the characters String.prototype.trim() strips
WhiteSpace == {SP, LF, CR, TAB}

RECURSIVE TrimStart(_)
TrimStart(s) ==
    IF s = <<>> THEN <<>>
    ELSE IF Head(s) \in WhiteSpace THEN TrimStart(Tail(s)) ELSE s

RECURSIVE TrimEnd(_)
TrimEnd(s) ==
    IF s = <<>> THEN <<>>
    ELSE IF s[Len(s)] \in WhiteSpace THEN TrimEnd(SubSeq(s, 1, Len(s) - 1)) ELSE s

\* String.prototype.trim
Trim(s) == TrimEnd(TrimStart(s))

\* payment amounts; 0 stands for an absent (falsy) amount
Amounts == {0, 1250}

\* JavaScript falsiness of a string-or-null argument: !x
Falsy(x) == x = NULL \/ x = <<>>

(***************************************************************************)
(* LineMatcher (srv/lib/line-matcher.js)                                   *)
(***************************************************************************)
Strategies == <<"FUZZY_TEXT", "VECTOR_SEMANTIC", "OPENAI_EMBEDDING">>
StrategySet == {Strategies[i] : i \in 1..Len(Strategies)}

Ids == 1..NumIds

\* raw backend scores / cosine similarities, in thousandths
Scores == {286, 715, 857, 1000}

\* a row as db.run delivers it
Rows == [ID : Ids, score : Scores]

RowSeqs(n) == UNION {[1..k -> Rows] : k \in 0..n}

MIN_CONFIDENCE == 85

\* Math.round((60 + score * 35) * 10) / 10, in tenths of a percent
Confidence(score) == (600000 + 350 * score + 500) \div 1000

\* results.map(record => ({ ID, confidence, matchStrategy, ... }))
MapRows(rows, s) ==
    [i \in 1..Len(rows) |->
        [ID |-> rows[i].ID,
         confidence |-> Confidence(rows[i].score),
         matchStrategy |-> s]]

\* a lookup that never finds the key, as with a Map keyed by the match
\* object instead of its ID
NeverFound(m, id) == 0

\* index of the entry of list m whose ID is id, 0 when there is none
RECURSIVE IndexOfId(_, _)
IndexOfId(m, id) ==
    IF m = <<>> THEN 0
    ELSE IF m[Len(m)].ID = id /\ IndexOfId(SubSeq(m, 1, Len(m) - 1), id) = 0
         THEN Len(m)
         ELSE IndexOfId(SubSeq(m, 1, Len(m) - 1), id)

\* the replace-only-if-strictly-higher rule of deduplicateMatches, keeping
\* the lower one instead
KeepLower(match, existing) == match.confidence < existing.confidence

\* deduplicateMatches: if (match.confidence > existing.confidence) set
KeepHigher(match, existing) == match.confidence > existing.confidence

\* deduplicateMatches: a Map keyed by ID in first-insertion order; a later
\* instance replaces the stored one, in place, only with higher confidence
RECURSIVE deduplicateMatches(_)
deduplicateMatches(matches) ==
    IF matches = <<>> THEN <<>>
    ELSE LET n == Len(matches)
             map == deduplicateMatches(SubSeq(matches, 1, n - 1))
             match == matches[n]
             at == IndexOfId(map, match.ID)
         IN  IF at = 0 THEN Append(map, match)
             ELSE IF KeepHigher(match, map[at])
                  THEN [map EXCEPT ![at] = match]
                  ELSE map

\* a threshold test that lets everything through
AboveNothing(m) == TRUE

\* uniqueMatches.filter(m => m.confidence >= MIN_CONFIDENCE)
AboveThreshold(m) == m.confidence >= MIN_CONFIDENCE * 10

FilterMatches(m) == SelectSeq(m, AboveThreshold)

\* an insertion that puts x before the entries of equal confidence
RECURSIVE InsertBeforeEqual(_, _)
InsertBeforeEqual(sorted, x) ==
    IF sorted = <<>> THEN <<x>>
    ELSE IF x.confidence >= Head(sorted).confidence
         THEN <<x>> \o sorted
         ELSE <<Head(sorted)>> \o InsertBeforeEqual(Tail(sorted), x)

\* inserting x into a list sorted by descending confidence, after every
\* entry that does not compare below it (stable)
RECURSIVE InsertSorted(_, _)
InsertSorted(sorted, x) ==
    IF sorted = <<>> THEN <<x>>
    ELSE IF x.confidence > Head(sorted).confidence
         THEN <<x>> \o sorted
         ELSE <<Head(sorted)>> \o InsertSorted(Tail(sorted), x)

RECURSIVE StableSortDesc(_)
StableSortDesc(m) ==
    IF m = <<>> THEN <<>>
    ELSE InsertSorted(StableSortDesc(SubSeq(m, 1, Len(m) - 1)), m[Len(m)])

\* a sort step that leaves the list as it is
SortNothing(m) == m

\* filteredMatches.sort((a, b) => b.confidence - a.confidence)
SortMatches(m) == StableSortDesc(m)

\* the settlement that hands on the rows that arrived before the failure
SettledKeepingRows(st, s) == MapRows(st.rows, s)

\* what the promise of one strategy call resolves to: the mapped rows, or
\* [] when the strategy's try/catch (or searchLine's .catch) caught an error
Settled(st, s) == IF st.status = "ok" THEN MapRows(st.rows, s) ELSE <<>>

\* const allMatches = [...fuzzyMatches, ...vectorMatches, ...openaiMatches]
allMatches(st) ==
    Settled(st["FUZZY_TEXT"], "FUZZY_TEXT")
        \o Settled(st["VECTOR_SEMANTIC"], "VECTOR_SEMANTIC")
        \o Settled(st["OPENAI_EMBEDDING"], "OPENAI_EMBEDDING")

\* the merge part of searchLine: deduplicate, filter, sort
MergeMatches(st) == SortMatches(FilterMatches(deduplicateMatches(allMatches(st))))

\* the line texts handed to searchLine
TextInputs ==
    { NULL,
      <<>>,
      <<SP, SP, SP, SP, SP, SP>>,
      <<"A", "C", "M", "E">>,
      <<SP, "A", "C", "M", "E", SP>>,
      <<"A", "C", "M", "E", "S">>,
      <<SP, "B", "O", ":", "1", "2", SP>> }

\* a guard that measures the text without trimming it
TooShortUntrimmed(text) == Falsy(text) \/ Len(text) < 5

\* !lineText || lineText.trim().length < 5
TooShort(text) == Falsy(text) \/ Len(Trim(text)) < 5

IdleStrat == [status |-> "idle", rows |-> <<>>, calls |-> 0, arg |-> NULL]

\* a start that issues the call and at once a second one
StartCallTwice(st, lineText) ==
    [st EXCEPT !.status = "pending", !.calls = @ + 2, !.arg = lineText]

\* this.fuzzySearch(db, lineText) and its two siblings inside Promise.all:
\* the call is issued once, with searchLine's lineText as it came in
StartCall(st, lineText) ==
    [st EXCEPT !.status = "pending", !.calls = @ + 1, !.arg = lineText]

\* a wait that ends with the first promise that settles
AnySettled(st) == \E s \in StrategySet : st[s].status \in {"ok", "failed"}

\* await Promise.all([...]) over promises that cannot reject (each has a
\* .catch): it resolves when every one of them has settled
AllSettled(st) == \A s \in StrategySet : st[s].status \in {"ok", "failed"}

TotalHits(st) ==
    Len(st["FUZZY_TEXT"].rows) + Len(st["VECTOR_SEMANTIC"].rows)
        + Len(st["OPENAI_EMBEDDING"].rows)

(***************************************************************************)
(* Line parser (line-parser: parsePaymentNotes and its helpers)            *)
(***************************************************************************)
UpperMap ==
    ("a" :> "A") @@
    ("b" :> "B") @@
    ("c" :> "C") @@
    ("d" :> "D") @@
    ("e" :> "E") @@
    ("f" :> "F") @@
    ("g" :> "G") @@
    ("h" :> "H") @@
    ("i" :> "I") @@
    ("j" :> "J") @@
    ("k" :> "K") @@
    ("l" :> "L") @@
    ("m" :> "M") @@
    ("n" :> "N") @@
    ("o" :> "O") @@
    ("p" :> "P") @@
    ("q" :> "Q") @@
    ("r" :> "R") @@
    ("s" :> "S") @@
    ("t" :> "T") @@
    ("u" :> "U") @@
    ("v" :> "V") @@
    ("w" :> "W") @@
    ("x" :> "X") @@
    ("y" :> "Y") @@
    ("z" :> "Z")

\* the case folding of the /i flag
ToUpper(c) == IF c \in DOMAIN UpperMap THEN UpperMap[c] ELSE c

Digits == {"0", "1", "2", "3", "4", "5", "6", "7", "8", "9"}

\* the word w (upper case) stands at position i of s, ignoring case
HasAt(s, i, w) ==
    /\ i >= 1
    /\ i + Len(w) - 1 <= Len(s)
    /\ \A k \in 1..Len(w) : ToUpper(s[i + k - 1]) = w[k]

\* \s* from position i: the first position at or after i that holds no
\* white space (Len(s) + 1 when there is none)
RECURSIVE SkipWs(_, _)
SkipWs(s, i) ==
    IF i > Len(s) THEN i
    ELSE IF s[i] \in WhiteSpace THEN SkipWs(s, i + 1) ELSE i

\* WORD\s*: matches at position i; KeyEnd is the position after the colon
KeyAt(s, i, w) ==
    /\ HasAt(s, i, w)
    /\ SkipWs(s, i + Len(w)) <= Len(s)
    /\ s[SkipWs(s, i + Len(w))] = ":"

KeyEnd(s, i, w) == SkipWs(s, i + Len(w)) + 1

\* LINE_PATTERNS, in declaration order: "prefix" is /^WORD\s*:/i, "marker"
\* is /WORD\s*:/i, "words" is /WORD|WORD/i
LINE_PATTERNS ==
    <<
       [type |-> "BO", kind |-> "prefix", words |-> {<<"B", "O">>}],
       [type |-> "BO1", kind |-> "marker", words |-> {<<"B", "O", "1">>}],
       [type |-> "BO2", kind |-> "marker", words |-> {<<"B", "O", "2">>}],
       [type |-> "ORDER", kind |-> "prefix", words |-> {<<"O", "R", "D", "E", "R">>}],
       [type |-> "BN", kind |-> "prefix", words |-> {<<"B", "N">>}],
       [type |-> "FR", kind |-> "prefix", words |-> {<<"F", "R">>}],
       [type |-> "TO", kind |-> "prefix", words |-> {<<"T", "O">>}],
       [type |-> "OBI", kind |-> "prefix", words |-> {<<"O", "B", "I">>}],
       [type |-> "OB", kind |-> "prefix", words |-> {<<"O", "B">>}],
       [type |-> "PY", kind |-> "prefix", words |-> {<<"P", "Y">>}],
       [type |-> "BI", kind |-> "prefix", words |-> {<<"B", "I">>}],
       [type |-> "CR", kind |-> "prefix", words |-> {<<"C", "R">>}],
       [type |-> "RF", kind |-> "prefix", words |-> {<<"R", "F">>}],
       [type |-> "SENDING", kind |-> "words",
        words |-> {<<"S", "E", "N", "D", "I", "N", "G", " ", "P", "E", "R", "S", "O", "N">>,
                   <<"S", "E", "N", "D", "I", "N", "G", " ", "C", "O">>}],
       [type |-> "ROC", kind |-> "prefix", words |-> {<<"R", "O", "C">>}],
       [type |-> "TRID", kind |-> "prefix", words |-> {<<"T", "R", "I", "D">>}],
       [type |-> "ENDT", kind |-> "prefix", words |-> {<<"E", "N", "D", "T">>}]
    >>

\* pattern.test(lineText)
PatternTest(pattern, lineText) ==
    CASE pattern.kind = "prefix" ->
            \E word \in pattern.words : KeyAt(lineText, 1, word)
      [] pattern.kind = "marker" ->
            \E word \in pattern.words :
                \E i \in 1..Len(lineText) : KeyAt(lineText, i, word)
      [] OTHER ->
            \E word \in pattern.words :
                \E i \in 1..Len(lineText) : HasAt(lineText, i, word)

\* identifyLineType: the first pattern of the table that matches, else OTHER
\* a classification by the last pattern of the table that matches
LastMatchingType(lineText) ==
    LET hits == {k \in 1..Len(LINE_PATTERNS) : PatternTest(LINE_PATTERNS[k], lineText)}
    IN  IF hits = {} THEN "OTHER"
        ELSE LINE_PATTERNS[CHOOSE k \in hits : \A j \in hits : k >= j].type

identifyLineType(lineText) ==
    LET hits == {k \in 1..Len(LINE_PATTERNS) : PatternTest(LINE_PATTERNS[k], lineText)}
    IN  IF hits = {} THEN "OTHER"
        ELSE LINE_PATTERNS[CHOOSE k \in hits : \A j \in hits : k <= j].type

\* extractBOText: the full line
extractBOText(lineText) == lineText

\* extractSearchText: the switch over identifyLineType(lineText); the case
\* labels are those of the source, 'SENDING PERSON' and 'DETAILS' included
extractSearchText(lineText) ==
    LET lineType == identifyLineType(lineText)
    IN  CASE lineType \in {"BO", "BO1", "BO2"} -> extractBOText(lineText)
          [] lineType = "ORDER" -> lineText
          [] lineType = "SENDING PERSON" -> lineText
          [] lineType = "DETAILS" -> lineText
          [] lineType \in {"FR", "TO", "OBI", "ROC", "TRID", "ENDT", "BI",
                           "CR", "RF", "BN", "PY", "OB"} -> NULL
          [] OTHER -> NULL

\* the end of the run of characters of set S that starts at position i
\* (i - 1 when s[i] is not in S)
RECURSIVE RunEnd(_, _, _)
RunEnd(s, i, S) ==
    IF i > Len(s) THEN i - 1
    ELSE IF s[i] \in S THEN RunEnd(s, i + 1, S) ELSE i - 1

W_TRID == <<"T", "R", "I", "D", ":">>

\* lineText.match(/TRID:(\d+)/i): group 1 of the leftmost match, or NULL
TransactionId(s) ==
    LET at == {i \in 1..Len(s) : HasAt(s, i, W_TRID) /\ RunEnd(s, i + 5, Digits) >= i + 5}
    IN  IF at = {} THEN NULL
        ELSE LET i == CHOOSE k \in at : \A j \in at : k <= j
             IN  SubSeq(s, i + 5, RunEnd(s, i + 5, Digits))

\* [\d,]+\.\d{2} matches from position p
AmountAt(s, p) ==
    LET q == RunEnd(s, p, Digits \cup {","})
    IN  /\ q >= p
        /\ q + 3 <= Len(s)
        /\ s[q + 1] = "."
        /\ s[q + 2] \in Digits
        /\ s[q + 3] \in Digits

\* lineText.match(/\$?([\d,]+\.\d{2})/): group 1 of the leftmost match
AmountToken(s) ==
    LET starts == {i \in 1..Len(s) :
                      \/ (s[i] = "$" /\ AmountAt(s, i + 1))
                      \/ AmountAt(s, i)}
    IN  IF starts = {} THEN NULL
        ELSE LET i == CHOOSE k \in starts : \A j \in starts : k <= j
                 p == IF s[i] = "$" /\ AmountAt(s, i + 1) THEN i + 1 ELSE i
             IN  SubSeq(s, p, RunEnd(s, p, Digits \cup {","}) + 3)

\* lineText.match(/\d{8}/): the leftmost eight consecutive digits
DateToken(s) ==
    LET at == {i \in 1..Len(s) : RunEnd(s, i, Digits) >= i + 7}
    IN  IF at = {} THEN NULL
        ELSE LET i == CHOOSE k \in at : \A j \in at : k <= j
             IN  SubSeq(s, i, i + 7)

\* extractMetadata (a key that the source leaves unset is NULL here)
extractMetadata(lineText) ==
    [transactionId |-> TransactionId(lineText),
     amount |-> AmountToken(lineText),
     date |-> DateToken(lineText)]

\* replace(/\\n/g, '\n'): every backslash followed by n becomes LF
RECURSIVE ReplaceLiteralNewline(_)
ReplaceLiteralNewline(s) ==
    IF s = <<>> THEN <<>>
    ELSE IF Len(s) >= 2 /\ s[1] = BSL /\ s[2] = "n"
         THEN <<LF>> \o ReplaceLiteralNewline(SubSeq(s, 3, Len(s)))
         ELSE <<s[1]>> \o ReplaceLiteralNewline(Tail(s))

\* replace(/\r\n/g, '\n')
RECURSIVE ReplaceCRLF(_)
ReplaceCRLF(s) ==
    IF s = <<>> THEN <<>>
    ELSE IF Len(s) >= 2 /\ s[1] = CR /\ s[2] = LF
         THEN <<LF>> \o ReplaceCRLF(SubSeq(s, 3, Len(s)))
         ELSE <<s[1]>> \o ReplaceCRLF(Tail(s))

\* replace(/\r/g, '\n')
ReplaceCR(s) == [i \in 1..Len(s) |-> IF s[i] = CR THEN LF ELSE s[i]]

\* the three replacements of parsePaymentNotes, in the order of the source
NormalizeNewlines(s) == ReplaceCR(ReplaceCRLF(ReplaceLiteralNewline(s)))

\* split('\n'): the pieces between the LF characters, empty pieces included
RECURSIVE SplitLF(_)
SplitLF(s) ==
    LET at == {i \in 1..Len(s) : s[i] = LF}
    IN  IF at = {} THEN <<s>>
        ELSE LET i == CHOOSE k \in at : \A j \in at : k <= j
             IN  <<SubSeq(s, 1, i - 1)>> \o SplitLF(SubSeq(s, i + 1, Len(s)))

NonEmpty(line) == Len(line) > 0

\* .split('\n').map(line => line.trim()).filter(line => line.length > 0)
RawLines(normalized) ==
    LET pieces == SplitLF(normalized)
    IN  SelectSeq([i \in 1..Len(pieces) |-> Trim(pieces[i])], NonEmpty)

\* a reflowing variant: a line of type OTHER is joined to the line before it
RECURSIVE MergeContinuations(_)
MergeContinuations(rawLines) ==
    IF Len(rawLines) <= 1 THEN rawLines
    ELSE LET n == Len(rawLines)
             before == MergeContinuations(SubSeq(rawLines, 1, n - 1))
         IN  IF identifyLineType(rawLines[n]) = "OTHER"
             THEN [before EXCEPT ![Len(before)] = @ \o rawLines[n]]
             ELSE Append(before, rawLines[n])

\* mergeWrappedLines: returns all lines as they are
mergeWrappedLines(rawLines) == rawLines

\* parsePaymentNotes
parsePaymentNotes(paymentNotesRaw) ==
    IF Falsy(paymentNotesRaw) THEN <<>>
    ELSE LET mergedLines == mergeWrappedLines(RawLines(NormalizeNewlines(paymentNotesRaw)))
         IN  [index \in 1..Len(mergedLines) |->
                [lineNo |-> index,
                 lineText |-> mergedLines[index],
                 lineType |-> identifyLineType(mergedLines[index]),
                 searchText |-> extractSearchText(mergedLines[index]),
                 metadata |-> extractMetadata(mergedLines[index])]]

(***************************************************************************)
(* Company name extractor (srv/lib/email-matcher.js, extractCompanyName)   *)
(***************************************************************************)
W_BO1 == <<"B", "O", "1">>
W_BO2 == <<"B", "O", "2">>
W_BO3 == <<"B", "O", "3">>

\* \s*BO[23]\s*: matches from position j
BoTailAt(s, j) ==
    /\ j <= Len(s)
    /\ \/ KeyAt(s, SkipWs(s, j), W_BO2)
       \/ KeyAt(s, SkipWs(s, j), W_BO3)

\* (?:\s*BO[23]\s*:|$) matches from position j
TerminatorAt(s, j) == j = Len(s) + 1 \/ BoTailAt(s, j)

\* lineText.match(/BO1\s*:\s*(.+?)(?:\s*BO[23]\s*:|$)/i): group 1 of the
\* leftmost match, NULL when there is no match.  After the marker \s* takes
\* all white space and the lazy group runs to the first position where the
\* terminator matches; when nothing but white space follows the marker,
\* \s* gives back the last white space character to the group.  A line
\* holds no line terminator, so "." matches every character of it.
Bo1Capture(s) ==
    LET at == {i \in 1..Len(s) : KeyAt(s, i, W_BO1)}
    IN  IF at = {} THEN NULL
        ELSE LET i == CHOOSE k \in at : \A j \in at : k <= j
                 p == KeyEnd(s, i, W_BO1)
                 q == SkipWs(s, p)
             IN  IF p > Len(s) THEN NULL
                 ELSE IF q > Len(s) THEN <<s[Len(s)]>>
                 ELSE LET ends == {e \in q..Len(s) : TerminatorAt(s, e + 1)}
                      IN  SubSeq(s, q, CHOOSE e \in ends : \A f \in ends : e <= f)

\* a cleanup that leaves BO2/BO3 markers where they are
KeepBoTail(s) == s

\* replace(/\s*BO[23]\s*:.*$/i, ''): cut at the leftmost BO2/BO3 marker
RemoveBoTail(s) ==
    LET at == {j \in 1..Len(s) : BoTailAt(s, j)}
    IN  IF at = {} THEN s
        ELSE SubSeq(s, 1, (CHOOSE k \in at : \A j \in at : k <= j) - 1)

\* replace(/^BO[0-9]+\s*:\s*/i, ''): drop a leading BO<digits>: marker
StripBoPrefix(s) ==
    LET d == RunEnd(s, 3, Digits)
        k == SkipWs(s, d + 1)
    IN  IF HasAt(s, 1, <<"B", "O">>) /\ d >= 3 /\ k <= Len(s) /\ s[k] = ":"
        THEN SubSeq(s, SkipWs(s, k + 1), Len(s))
        ELSE s

\* the cleanup of the captured name
CleanCapture(capture) == Trim(StripBoPrefix(RemoveBoTail(Trim(capture))))

\* parsedLines.find(line => line.lineType === type): its index, 0 if none
FindLineOfType(parsedLines, type) ==
    LET at == {i \in 1..Len(parsedLines) : parsedLines[i].lineType = type}
    IN  IF at = {} THEN 0 ELSE CHOOSE k \in at : \A j \in at : k <= j

\* a length check that also rejects names of two characters
NameTooShort3(companyName) == Len(companyName) < 3

\* if (companyName.length < 2): the name is too short
NameTooShort(companyName) == Len(companyName) < 2

\* the null that extractCompanyName returns for "no result"
NoResult == [source |-> "null"]

\* a lineText that is no string and not falsy (a number, an object): it
\* has no match method
NotAString == <<"number">>

\* a null or undefined element of the list: reading a property of it
\* throws a TypeError
NullElement == [lineType |-> "null element", lineText |-> NULL]

\* an error is thrown inside the try block: find's callback reads
\* line.lineType of a null element before it has found a BO line, or
\* boLine.lineText.match is not a function
ThrowsInTry(parsedLines) ==
    LET at == FindLineOfType(parsedLines, "BO")
    IN  \/ \E i \in 1..Len(parsedLines) :
              parsedLines[i] = NullElement /\ (at = 0 \/ i < at)
        \/ at # 0 /\ parsedLines[at].lineText = NotAString

\* the error leaves extractCompanyName
Threw == [source |-> "threw"]

\* a catch block that throws the error on
Rethrow(parsedLines) == Threw

\* catch (error) { console.error(...); return null; }
OnError(parsedLines) == NoResult

\* extractCompanyName(parsedLines, amount); parsedLines is a list here, so
\* of !parsedLines || parsedLines.length === 0 the length test remains
extractCompanyName(parsedLines, amount) ==
    IF Len(parsedLines) = 0 THEN NoResult
    ELSE IF ThrowsInTry(parsedLines) THEN OnError(parsedLines)
    ELSE LET at == FindLineOfType(parsedLines, "BO")
         IN  IF at = 0 \/ Falsy(parsedLines[at].lineText) THEN NoResult
             ELSE LET bo1Match == Bo1Capture(parsedLines[at].lineText)
                  IN  IF bo1Match = NULL THEN NoResult
                      ELSE LET companyName == CleanCapture(bo1Match)
                           IN  IF Len(companyName) = 0 THEN NoResult
                               ELSE IF NameTooShort(companyName) THEN NoResult
                               ELSE [companyName |-> companyName,
                                     source |-> "BO1",
                                     confidence |-> 95,
                                     amount |-> amount,
                                     fullLine |-> parsedLines[at].lineText]

\* a guard that tests for null only
MissingNotesNullOnly(paymentNotesRaw) == paymentNotesRaw = NULL

\* if (!paymentNotesRaw || typeof paymentNotesRaw !== 'string'), for a
\* note that is a string or missing
MissingNotes(paymentNotesRaw) == Falsy(paymentNotesRaw)

T_NONE == <<"N", "O", "N", "E">>

\* a validation that forgets the literal NONE
InvalidLlmNameLengthOnly(companyName) == Len(companyName) < 2

\* if (!companyName || companyName === 'NONE' || companyName.length < 2)
InvalidLlmName(companyName) ==
    companyName = <<>> \/ companyName = T_NONE \/ Len(companyName) < 2

\* what extractCompanyNameWithChatGPT makes of the text the LLM answered
\* with: extractedText.trim(), the validation, the result record
LlmResult(extractedText, paymentNotesRaw) ==
    LET companyName == Trim(extractedText)
    IN  IF InvalidLlmName(companyName) THEN NoResult
        ELSE [companyName |-> companyName,
              source |-> "CHATGPT",
              confidence |-> 90,
              rawPaymentNotes |-> paymentNotesRaw]

\* texts the LLM answers with
LlmResponses ==
    { <<>>,
      T_NONE,
      <<" ", "N", "O", "N", "E", "\n">>,
      <<"n", "o", "n", "e">>,
      <<" ", "A", " ">>,
      <<"A", "C">>,
      <<" ", "A", "C", "M", "E", " ", "\n">>,
      <<"N", "O", "N", "E", " ", "I", "N", "C">> }

\* a chain that asks the LLM whenever the pattern rule gave nothing
LlmAfterAnyMiss(parsedLines, patternResult) == patternResult = NoResult

\* the fallback chain: the LLM stage is reached only when the pattern rule
\* gave nothing and the parsed note holds no buyer-order-primary line
LlmStageReachable(parsedLines, patternResult) ==
    /\ patternResult = NoResult
    /\ FindLineOfType(parsedLines, "BO") = 0

(***************************************************************************)
(* Email scorers (calculateRelevanceScore in srv/lib/email-matcher.js,     *)
(* calculateRelevance in srv/lib/email-summarizer.js).  Scores are kept in *)
(* hundredths of a point (100 points = 10000).                             *)
(***************************************************************************)
LowerMap ==
    ("A" :> "a") @@
    ("B" :> "b") @@
    ("C" :> "c") @@
    ("D" :> "d") @@
    ("E" :> "e") @@
    ("F" :> "f") @@
    ("G" :> "g") @@
    ("H" :> "h") @@
    ("I" :> "i") @@
    ("J" :> "j") @@
    ("K" :> "k") @@
    ("L" :> "l") @@
    ("M" :> "m") @@
    ("N" :> "n") @@
    ("O" :> "o") @@
    ("P" :> "p") @@
    ("Q" :> "q") @@
    ("R" :> "r") @@
    ("S" :> "s") @@
    ("T" :> "t") @@
    ("U" :> "u") @@
    ("V" :> "v") @@
    ("W" :> "w") @@
    ("X" :> "x") @@
    ("Y" :> "y") @@
    ("Z" :> "z")

ToLowerChar(c) == IF c \in DOMAIN LowerMap THEN LowerMap[c] ELSE c

\* String.prototype.toLowerCase
toLowerCase(s) == [i \in 1..Len(s) |-> ToLowerChar(s[i])]

\* String.prototype.includes
Includes(s, sub) ==
    \E i \in 1..(Len(s) - Len(sub) + 1) :
        \A k \in 1..Len(sub) : s[i + k - 1] = sub[k]

\* (field || ''): a missing text field reads as the empty string
OrEmpty(field) == IF field = NULL THEN <<>> ELSE field

\* a JSON side-field of a cached email is kept by what JSON.parse makes of
\* it: "missing" (null, read as '[]'), "invalid" (JSON.parse throws),
\* "notlist" (parses to a value without .some) or "list" with its items
ParsesToList(field) == field.kind \in {"missing", "list"}

ParsedItems(field) == IF field.kind = "list" THEN field.items ELSE <<>>

Abs(x) == IF x < 0 THEN 0 - x ELSE x

\* const tolerance = amount * 0.01; Math.abs(extracted - amount) <= tolerance
WithinTolerance(extracted, amount) == 100 * Abs(extracted - amount) <= amount

\* a cap that discards a sum above 100 instead of limiting it
ResetAbove100(score) == IF score <= 10000 THEN score ELSE 0

\* Math.min(score, 100)
CapAt100(score) == IF score < 10000 THEN score ELSE 10000

\* calculateRelevanceScore(email, companyName, amount, searchEmbedding)
calculateRelevanceScore(email, companyName, amount) ==
    LET similarity == email.similarity
        subject == toLowerCase(OrEmpty(email.subject))
        bodyPreview == toLowerCase(OrEmpty(email.bodyPreview))
        companyLower == toLowerCase(companyName)
        fromName == toLowerCase(OrEmpty(email.fromName))
        fromAddress == toLowerCase(OrEmpty(email.fromAddress))
        companies == ParsedItems(email.extractedCompanies)
        amounts == ParsedItems(email.extractedAmounts)
        base == similarity * 5
        inSubject == IF Includes(subject, companyLower) THEN 2000 ELSE 0
        inBody == IF Includes(bodyPreview, companyLower) THEN 1000 ELSE 0
        inCompanies ==
            IF /\ ParsesToList(email.extractedCompanies)
               /\ \E k \in 1..Len(companies) :
                     Includes(toLowerCase(companies[k]), companyLower)
            THEN 1500 ELSE 0
        amountMatch ==
            IF /\ amount # 0
               /\ ParsesToList(email.extractedAmounts)
               /\ \E k \in 1..Len(amounts) : WithinTolerance(amounts[k], amount)
            THEN 2000 ELSE 0
        inSender ==
            IF Includes(fromName, companyLower) \/ Includes(fromAddress, companyLower)
            THEN 1000 ELSE 0
    IN  CapAt100(base + inSubject + inBody + inCompanies + amountMatch + inSender)

\* safeParseJSON(jsonString): JSON.parse(jsonString || '[]'), [] when it
\* throws; a text that parses to something else than a list comes back as
\* that value
safeParseJSON(field) ==
    IF field.kind \in {"missing", "invalid"}
    THEN [kind |-> "list", items |-> <<>>]
    ELSE field

\* formatCachedEmailResults(emails): the fields of the display record that
\* derive from the scored ones; score is Math.round(relevanceScore) in
\* points, similarity is Math.round(similarity * 100)
formatCachedEmailResults(emails) ==
    [k \in 1..Len(emails) |->
        [subject |-> emails[k].email.subject,
         from |-> IF Falsy(emails[k].email.fromName)
                  THEN emails[k].email.fromAddress
                  ELSE emails[k].email.fromName,
         fromAddress |-> emails[k].email.fromAddress,
         score |-> (emails[k].relevanceScore + 50) \div 100,
         similarity |-> (emails[k].email.similarity + 5) \div 10,
         extractedAmounts |-> safeParseJSON(emails[k].email.extractedAmounts),
         extractedCompanies |-> safeParseJSON(emails[k].email.extractedCompanies)]]

DigitChars == <<"0", "1", "2", "3", "4", "5", "6", "7", "8", "9">>

\* Number.prototype.toString of a non-negative integer
RECURSIVE NumToString(_)
NumToString(n) ==
    IF n < 10 THEN <<DigitChars[n + 1]>>
    ELSE NumToString(n \div 10) \o <<DigitChars[(n % 10) + 1]>>

\* replace(/\B(?=(\d{3})+(?!\d))/g, ','): a comma before every group of
\* three trailing digits
RECURSIVE AddCommas(_)
AddCommas(digits) ==
    IF Len(digits) <= 3 THEN digits
    ELSE AddCommas(SubSeq(digits, 1, Len(digits) - 3))
            \o <<",">> \o SubSeq(digits, Len(digits) - 2, Len(digits))

\* calculateRelevance(email, companyName, amount)
calculateRelevance(email, companyName, amount) ==
    LET subject == toLowerCase(OrEmpty(email.subject))
        preview == toLowerCase(OrEmpty(email.bodyPreview))
        companyLower == toLowerCase(companyName)
        amountStr == AddCommas(NumToString(amount))
        amountPlain == NumToString(amount)
        fromName == toLowerCase(OrEmpty(email.from.name))
        fromAddress == toLowerCase(OrEmpty(email.from.address))
        inSubject == IF Includes(subject, companyLower) THEN 5000 ELSE 0
        inBody == IF Includes(preview, companyLower) THEN 3000 ELSE 0
        amountInSubject ==
            IF amount # 0 /\ (Includes(subject, amountStr) \/ Includes(subject, amountPlain))
            THEN 3000 ELSE 0
        amountInBody ==
            IF amount # 0 /\ (Includes(preview, amountStr) \/ Includes(preview, amountPlain))
            THEN 2000 ELSE 0
        attachments == IF email.hasAttachments THEN 1000 ELSE 0
        inSender ==
            IF Includes(fromName, companyLower) \/ Includes(fromAddress, companyLower)
            THEN 2000 ELSE 0
    IN  inSubject + inBody + amountInSubject + amountInBody + attachments + inSender

\* texts of email fields
T_Company == <<"R", "e", ":", " ", "A", "c", " ", "p", "a", "y">>
T_Amount == <<"p", "a", "i", "d", " ", "1", ",", "2", "5", "0">>
T_Both == <<"a", "c", " ", "1", "2", "5", "0">>
T_Other == <<"h", "e", "l", "l", "o">>

FieldTexts == {NULL, T_Company, T_Amount, T_Both, T_Other}

SenderTexts == {NULL, <<"a", "c", "@", "x">>, T_Other}

\* cosine similarities as the database reports them, in thousandths
Similarities == {-400, 0, 620, 1000}

CompanyLists ==
    { [kind |-> "missing", items |-> <<>>],
      [kind |-> "invalid", items |-> <<>>],
      [kind |-> "notlist", items |-> <<>>],
      [kind |-> "list", items |-> <<>>],
      [kind |-> "list", items |-> <<T_Other, <<"A", "C", " ", "L", "L", "C">> >>] }

AmountLists ==
    { [kind |-> "missing", items |-> <<>>],
      [kind |-> "invalid", items |-> <<>>],
      [kind |-> "notlist", items |-> <<>>],
      [kind |-> "list", items |-> <<900, 1260>>],
      [kind |-> "list", items |-> <<1300>>] }

\* rows of RECONCILIATION_EMAILCACHE as the similarity query returns them
CachedEmails ==
    [similarity : Similarities,
     subject : FieldTexts,
     bodyPreview : {NULL, T_Both, T_Other},
     extractedCompanies : CompanyLists,
     extractedAmounts : AmountLists,
     fromName : {NULL} ,
     fromAddress : SenderTexts]

\* messages as the Graph API returns them
InboxEmails ==
    [subject : FieldTexts,
     bodyPreview : FieldTexts,
     hasAttachments : BOOLEAN,
     from : [name : SenderTexts, address : SenderTexts]]

\* company names a scorer is called with
CompanyNames == {<<"A", "C">>, <<"a", "c", "@">>, <<"Z", "Z">>}

(***************************************************************************)
(* Email searches (searchCachedEmails in srv/lib/email-matcher.js,         *)
(* searchInbox in srv/lib/email-summarizer.js).  Dates are day numbers.    *)
(***************************************************************************)
\* daysBefore = 7, daysAfter = 7 of searchCachedEmails
CACHED_DEFAULT_DAYS == 7
\* daysBefore = 3, daysAfter = 3 of searchInbox
INBOX_DEFAULT_DAYS == 3
\* LIMIT 25 of the similarity query, '$top': '25' of the mailbox query
QUERY_LIMIT == 25
\* scored.slice(0, 10)
TOP_N == 10

\* an argument that was omitted
OMITTED_DAYS == -1
\* a valueDate from which new Date() makes an Invalid Date
INVALID_DATE == -1

\* a guard that tests for null only
MissingCompanyNullOnly(companyName) == companyName = NULL

\* if (!companyName) throw new Error('Company name is required ...')
MissingCompany(companyName) == Falsy(companyName)

\* the default parameter value replaces an omitted argument
DaysOr(days, default) == IF days = OMITTED_DAYS THEN default ELSE days

\* startDate.setDate(startDate.getDate() - daysBefore), and endDate
DateRange(valueDate, daysBefore, daysAfter) ==
    [startDate |-> valueDate - daysBefore,
     endDate |-> valueDate + daysAfter,
     passed |-> FALSE]

\* inserting x into a list sorted by descending relevanceScore (stable)
RECURSIVE InsertByRelevance(_, _)
InsertByRelevance(sorted, x) ==
    IF sorted = <<>> THEN <<x>>
    ELSE IF x.relevanceScore > Head(sorted).relevanceScore
         THEN <<x>> \o sorted
         ELSE <<Head(sorted)>> \o InsertByRelevance(Tail(sorted), x)

\* a sort step that keeps the order of the query
KeepQueryOrder(m) == m

\* list.sort((a, b) => b.relevanceScore - a.relevanceScore)
RECURSIVE SortByRelevance(_)
SortByRelevance(m) ==
    IF m = <<>> THEN <<>>
    ELSE InsertByRelevance(SortByRelevance(SubSeq(m, 1, Len(m) - 1)), m[Len(m)])

\* list.slice(0, n)
Slice(list, n) == SubSeq(list, 1, IF Len(list) < n THEN Len(list) ELSE n)

\* results.map(email => ({ ...email, relevanceScore })), sort, slice(0, 10)
RankCached(results, companyName, amount) ==
    Slice(SortByRelevance(
              [k \in 1..Len(results) |->
                  [email |-> results[k],
                   relevanceScore |->
                       calculateRelevanceScore(results[k], companyName, amount)]]),
          TOP_N)

\* emails.map(email => ({ subject, ..., relevanceScore })), sort
RankInbox(emails, companyName, amount) ==
    SortByRelevance(
        [k \in 1..Len(emails) |->
            [email |-> emails[k],
             relevanceScore |-> calculateRelevance(emails[k], companyName, amount)]])

NoCompanies == [kind |-> "missing", items |-> <<>>]
NoAmounts == [kind |-> "missing", items |-> <<>>]

\* generated rows of RECONCILIATION_EMAILCACHE: received on days 8..12,
\* similarities 0..0.7 with ties, bonus conditions spread over the rows
GeneratedRows ==
    { [ID |-> k,
       receivedDateTime |-> 8 + (k % 5),
       embedded |-> TRUE,
       similarity |-> 100 * ((k * 3) % 8),
       subject |-> IF k % 3 = 0 THEN T_Company ELSE T_Other,
       bodyPreview |-> IF k % 4 = 0 THEN T_Both ELSE NULL,
       extractedCompanies |-> NoCompanies,
       extractedAmounts |->
           IF k % 5 = 0 THEN [kind |-> "list", items |-> <<1260>>] ELSE NoAmounts,
       fromName |-> NULL,
       fromAddress |-> T_Other] : k \in 5..MaxCacheId }

\* the rows of RECONCILIATION_EMAILCACHE the similarity query can see
CachePool ==
    GeneratedRows \cup
    { [ID |-> 1, receivedDateTime |-> 9, embedded |-> TRUE, similarity |-> 620,
       subject |-> T_Company, bodyPreview |-> T_Both,
       extractedCompanies |-> NoCompanies,
       extractedAmounts |-> [kind |-> "list", items |-> <<1260>>],
       fromName |-> NULL, fromAddress |-> <<"a", "c", "@", "x">>],
      [ID |-> 2, receivedDateTime |-> 11, embedded |-> TRUE, similarity |-> 1000,
       subject |-> T_Other, bodyPreview |-> NULL,
       extractedCompanies |-> NoCompanies, extractedAmounts |-> NoAmounts,
       fromName |-> NULL, fromAddress |-> T_Other],
      [ID |-> 3, receivedDateTime |-> 30, embedded |-> TRUE, similarity |-> 1000,
       subject |-> T_Company, bodyPreview |-> T_Other,
       extractedCompanies |-> NoCompanies, extractedAmounts |-> NoAmounts,
       fromName |-> NULL, fromAddress |-> T_Other],
      [ID |-> 4, receivedDateTime |-> 10, embedded |-> FALSE, similarity |-> 0,
       subject |-> T_Both, bodyPreview |-> T_Both,
       extractedCompanies |-> NoCompanies, extractedAmounts |-> NoAmounts,
       fromName |-> NULL, fromAddress |-> T_Other] }

\* WHERE "receivedDateTime" BETWEEN ? AND ? AND "embedding" IS NOT NULL
InWindow(email, range) ==
    /\ email.embedded
    /\ range.startDate <= email.receivedDateTime
    /\ email.receivedDateTime <= range.endDate

\* ORDER BY "similarity" DESC over a set of rows; rows of equal similarity
\* come in the order of their ID, ascending or descending
RECURSIVE OrderedBySimilarity(_, _)
OrderedBySimilarity(rows, lowIdFirst) ==
    IF rows = {} THEN <<>>
    ELSE LET first ==
                 CHOOSE e \in rows : \A f \in rows :
                     \/ e.similarity > f.similarity
                     \/ /\ e.similarity = f.similarity
                        /\ IF lowIdFirst THEN e.ID <= f.ID ELSE e.ID >= f.ID
         IN  <<first>> \o OrderedBySimilarity(rows \ {first}, lowIdFirst)

\* the answers the database can give to the similarity query over some
\* cache content: rows of the window, ORDER BY "similarity" DESC, LIMIT 25
QueryAnswers(range) ==
    LET hits == {e \in CachePool : InWindow(e, range)}
    IN  { Slice(OrderedBySimilarity(content, lowIdFirst), QUERY_LIMIT) :
            content \in {c \in SUBSET hits : Cardinality(c) <= MaxRows},
            lowIdFirst \in BOOLEAN }

\* the messages of the mailbox the Graph API search can see
InboxPool ==
    { [id |-> 1, receivedDateTime |-> 9, subject |-> T_Company,
       bodyPreview |-> T_Both, hasAttachments |-> TRUE,
       from |-> [name |-> <<"a", "c", "@", "x">>, address |-> NULL]],
      [id |-> 2, receivedDateTime |-> 40, subject |-> T_Both,
       bodyPreview |-> T_Other, hasAttachments |-> FALSE,
       from |-> [name |-> NULL, address |-> T_Other]],
      [id |-> 3, receivedDateTime |-> 10, subject |-> T_Other,
       bodyPreview |-> NULL, hasAttachments |-> FALSE,
       from |-> [name |-> NULL, address |-> NULL]] }

\* the answers the Graph API can give: up to $top messages, in its order
InboxAnswers ==
    { rows \in UNION {[1..k -> InboxPool] :
                        k \in 0..(IF MaxRows < Cardinality(InboxPool)
                                  THEN MaxRows ELSE Cardinality(InboxPool))} :
        /\ \A a, b \in 1..Len(rows) : a # b => rows[a] # rows[b]
        /\ Len(rows) <= QUERY_LIMIT }

\* error messages of a rejected backend call, by the key word they hold
BackendErrors == {"timeout", "destination", "not found"}

\* a catch that turns every error into an empty result
DegradesAlways(message) == TRUE

\* searchInbox's catch: error.message.includes('not found') ||
\* error.message.includes('destination')
DegradesToEmpty(message) == message \in {"not found", "destination"}

\* what stops a search before its first backend call
CallError(args) ==
    IF MissingCompany(args.companyName) THEN "precondition"
    ELSE IF args.valueDate = INVALID_DATE THEN "invalid date"
    ELSE "none"

\* arguments of an email search
SearchArgs ==
    [companyName : {NULL, <<>>, <<"A", "C">>},
     amount : Amounts,
     valueDate : {INVALID_DATE, 10},
     daysBefore : {OMITTED_DAYS, 1},
     daysAfter : {OMITTED_DAYS, 1}]

(***************************************************************************)
(* parseActionItems (srv/lib/email-summarizer.js)                          *)
(***************************************************************************)
\* fragments a summary is built from
MaxSummaryFrags == 3

\* the labels of the five regular expressions, folded to upper case
L_CostCenter == <<"*", "*", "C", "O", "S", "T", " ", "C", "E", "N", "T", "E", "R", "*", "*", ":">>
L_CompanyCode == <<"*", "*", "C", "O", "M", "P", "A", "N", "Y", " ", "C", "O", "D", "E", "*", "*", ":">>
L_GLAccount == <<"*", "*", "G", "L", " ", "A", "C", "C", "O", "U", "N", "T", "*", "*", ":">>
L_Invoice == <<"*", "*", "I", "N", "V", "O", "I", "C", "E", "/", "R", "E", "F", "E", "R", "E", "N", "C", "E", "*", "*", ":">>
L_Notes == <<"*", "*", "N", "O", "T", "E", "S", "*", "*", ":">>

\* the characters '.' does not match
LineTerminators == {LF, CR}

\* (.+) from position i: the last position of the run of characters that
\* are no line terminators
RECURSIVE DotRunEnd(_, _)
DotRunEnd(s, i) ==
    IF i > Len(s) THEN i - 1
    ELSE IF s[i] \in LineTerminators THEN i - 1 ELSE DotRunEnd(s, i + 1)

\* where group 1 of /LABEL\s*(.+)/ starts for a match that begins at i, 0
\* when there is no match at i: \s* takes the whole white-space run and
\* gives characters back only when nothing is left for (.+)
CaptureStart(summary, i, label) ==
    LET j == i + Len(label)
        r == SkipWs(summary, j)
        back == {k \in j..Len(summary) : summary[k] \notin LineTerminators}
    IN  IF r <= Len(summary) THEN r
        ELSE IF back = {} THEN 0
        ELSE CHOOSE k \in back : \A m \in back : m <= k

\* the literal part of /\*\*Label\*\*:/i at position i
LabelAt(summary, i, label) == HasAt(summary, i, label)

\* summary.match(/\*\*Label\*\*:\s*(.+)/i): group 1 of the leftmost match,
\* NULL when the expression does not match
LabelCapture(summary, label) ==
    LET at == {i \in 1..Len(summary) :
                  LabelAt(summary, i, label) /\ CaptureStart(summary, i, label) # 0}
    IN  IF at = {} THEN NULL
        ELSE LET i == CHOOSE k \in at : \A m \in at : k <= m
                 a == CaptureStart(summary, i, label)
             IN  SubSeq(summary, a, DotRunEnd(summary, a))

T_NotFound == <<"n", "o", "t", " ", "f", "o", "u", "n", "d">>

\* a cleanValue that only trims
CleanValueTrimOnly(value) == IF value = NULL THEN NULL ELSE Trim(value)

\* cleanValue: null for a missing value, for "not found" in any letter case
\* and for "-", else the trimmed value
cleanValue(value) ==
    IF value = NULL THEN NULL
    ELSE LET trimmed == Trim(value)
         IN  IF toLowerCase(trimmed) = T_NotFound \/ trimmed = <<"-">>
             THEN NULL ELSE trimmed

NoFields == [costCenter |-> NULL, companyCode |-> NULL, glAccount |-> NULL,
             invoice |-> NULL, notes |-> NULL]

\* parseActionItems(summary) for a summary that is a string or missing; the
\* catch branch needs String.prototype.match to throw, which it does not
parseActionItems(summary) ==
    IF Falsy(summary) THEN NoFields
    ELSE [costCenter |-> cleanValue(LabelCapture(summary, L_CostCenter)),
          companyCode |-> cleanValue(LabelCapture(summary, L_CompanyCode)),
          glAccount |-> cleanValue(LabelCapture(summary, L_GLAccount)),
          invoice |-> cleanValue(LabelCapture(summary, L_Invoice)),
          notes |-> cleanValue(LabelCapture(summary, L_Notes))]

\* the fragments of LLM responses: labels as the prompt spells them, one in
\* lower case, and values
SummaryFrags ==
    { <<"*", "*", "C", "o", "s", "t", " ", "C", "e", "n", "t", "e", "r", "*", "*", ":">>,
      <<"*", "*", "C", "o", "m", "p", "a", "n", "y", " ", "C", "o", "d", "e", "*", "*", ":">>,
      <<"*", "*", "G", "L", " ", "A", "c", "c", "o", "u", "n", "t", "*", "*", ":">>,
      <<"*", "*", "I", "n", "v", "o", "i", "c", "e", "/", "R", "e", "f", "e", "r", "e", "n", "c", "e", "*", "*", ":">>,
      <<"*", "*", "N", "o", "t", "e", "s", "*", "*", ":">>,
      <<"*", "*", "n", "o", "t", "e", "s", "*", "*", ":">>,
      <<" ", "1", "9">>,
      <<" ", "N", "o", "t", " ", "f", "o", "u", "n", "d">>,
      <<" ", "N", "O", "T", " ", "F", "O", "U", "N", "D", " ">>,
      <<" ", "-">>,
      <<SP>>,
      <<LF>>,
      <<"p", "a", "i", "d", " ", "o", "k">> }

\* a response in the format the prompt asks for
FormattedSummary ==
    <<"*", "*", "C", "o", "s", "t", " ", "C", "e", "n", "t", "e", "r", "*", "*", ":", " ", "1", "9", "\n", "*", "*", "C", "o", "m", "p", "a", "n", "y", " ", "C", "o", "d", "e", "*", "*", ":", " ", "N", "o", "t", " ", "f", "o", "u", "n", "d", "\n", "*", "*", "G", "L", " ", "A", "c", "c", "o", "u", "n", "t", "*", "*", ":", " ", "6", "0", "\n", "*", "*", "I", "n", "v", "o", "i", "c", "e", "/", "R", "e", "f", "e", "r", "e", "n", "c", "e", "*", "*", ":", " ", "-", "\n", "*", "*", "N", "o", "t", "e", "s", "*", "*", ":", " ", "p", "a", "i", "d", " ", "o", "k">>

(***************************************************************************)
(* Payment notes handed to the parser                                      *)
(***************************************************************************)
RECURSIVE Flatten(_)
Flatten(seqs) == IF seqs = <<>> THEN <<>> ELSE Head(seqs) \o Flatten(Tail(seqs))

SeqsUpTo(S, n) == UNION {[1..k -> S] : k \in 0..n}

\* notes spelled character by character, for the line-ending handling
SepAlphabet == {BSL, "n", CR, LF, SP, "A"}

SepNotes == SeqsUpTo(SepAlphabet, MaxSepChars)

\* notes made of key words, for the classification
TypeTokens ==
    { <<"B", "O", ":">>,
      <<"B", "O", "1", ":">>,
      <<"B", "O", "2", ":">>,
      <<"O", "R", "D", "E", "R", ":">>,
      <<"B", "N", ":">>,
      <<"F", "R", ":">>,
      <<"T", "O", ":">>,
      <<"O", "B", "I", ":">>,
      <<"O", "B", ":">>,
      <<"P", "Y", ":">>,
      <<"B", "I", ":">>,
      <<"C", "R", ":">>,
      <<"R", "F", ":">>,
      <<"R", "O", "C", ":">>,
      <<"T", "R", "I", "D", ":">>,
      <<"E", "N", "D", "T", ":">>,
      <<"D", "E", "T", "A", "I", "L", "S", ":">>,
      <<"S", "E", "N", "D", "I", "N", "G", " ", "P", "E", "R", "S", "O", "N">>,
      <<"s", "e", "n", "d", "i", "n", "g", " ", "c", "o">>,
      <<"o", "r", "d", "e", "r", SP, ":">>,
      <<"A", "C">>, <<"7">>, <<SP>>, <<LF>> }

TypeNotes == {Flatten(t) : t \in SeqsUpTo(TypeTokens, MaxTypeFrags)}

\* notes made of buyer-order markers and names, for the name extraction
BoTokens ==
    { <<"B", "O", ":">>, <<"B", "O", "1", ":">>, <<"b", "o", "1", SP, ":">>,
      <<"B", "O", "2", ":">>, <<"B", "O", "3", SP, ":">>,
      <<"A", "C">>, <<"M">>, <<SP>>, <<LF>> }

BoNotes == {Flatten(t) : t \in SeqsUpTo(BoTokens, MaxBoFrags)}

\* "BO:219062889 BO1:ACME LLC BO2:123 MAIN ST\nTRID:998877\n", with the
\* line breaks spelled as backslash-n and as LF
ScenarioLine1 ==
    <<"B", "O", ":", "2", "1", "9", "0", "6", "2", "8", "8", "9">> \o <<SP>>
        \o <<"B", "O", "1", ":", "A", "C", "M", "E">> \o <<SP>> \o <<"L", "L", "C">> \o <<SP>>
        \o <<"B", "O", "2", ":", "1", "2", "3">> \o <<SP>> \o <<"M", "A", "I", "N">> \o <<SP>> \o <<"S", "T">>

ScenarioLine2 == <<"T", "R", "I", "D", ":", "9", "9", "8", "8", "7", "7">>

ScenarioNotes ==
    { NULL,
      ScenarioLine1 \o <<LF>> \o ScenarioLine2 \o <<LF>>,
      ScenarioLine1 \o <<BSL, "n">> \o ScenarioLine2 \o <<BSL, "n">>,
      <<"P", "Y", ":", "$", "1", ",", "2", "5", "0", ".", "0", "0">> \o <<CR, LF>> \o <<"E", "N", "D", "T", ":", "2", "0", "2", "5", "0", "1", "3", "1">> }

\* elements of the lists a caller may hand to extractCompanyName: parsed
\* lines, objects whose lineText is missing, empty or no string, and null
ListElements ==
    { [lineType |-> "BO", lineText |-> ScenarioLine1],
      [lineType |-> "BO", lineText |-> <<"B", "O", ":", "B", "O", "1", ":", "A">>],
      [lineType |-> "TRID", lineText |-> ScenarioLine2],
      [lineType |-> "BO", lineText |-> NULL],
      [lineType |-> "BO", lineText |-> <<>>],
      [lineType |-> "BO", lineText |-> NotAString],
      NullElement }

ListInputs == SeqsUpTo(ListElements, MaxElements)

\* the raw notes a stage is called with; NULL is a note that is absent
NoteInputs == {NULL} \cup SepNotes \cup TypeNotes \cup BoNotes \cup ScenarioNotes

\* the summaries handed to parseActionItems
SummaryInputs ==
    {NULL, <<>>, FormattedSummary}
        \cup {Flatten(fs) : fs \in SeqsUpTo(SummaryFrags, MaxSummaryFrags)}

(***************************************************************************)
(* addStatement and its helpers (service implementation)                   *)
(***************************************************************************)
UpperLetters == {UpperMap[c] : c \in DOMAIN UpperMap}

\* the handler's parsePaymentNotes: split(/[\r\n]+/), trim, drop the empty
StatementLines(vwezw) ==
    IF Falsy(vwezw) THEN <<>> ELSE RawLines(ReplaceCR(vwezw))

\* replace(/^[A-Z]{1,4}:/g, ''): drop one to four capital letters and a
\* colon from the start of the line
StripKey(lineText) ==
    LET ends == {k \in 2..5 :
                    /\ k <= Len(lineText)
                    /\ lineText[k] = ":"
                    /\ \A j \in 1..(k - 1) : lineText[j] \in UpperLetters}
    IN  IF ends = {} THEN lineText
        ELSE SubSeq(lineText, (CHOOSE k \in ends : TRUE) + 1, Len(lineText))

\* .limit(3) of the Historical query
HIST_LIMIT == 3

\* confidence: 75, the default of a fuzzy match, in percent
FUZZY_DEFAULT_CONFIDENCE == 75

\* Math.min(3, matches.length): the matches stored per line
STORE_TOP == 3

\* fuzzyTextSearch(lineText) against a database that answers the query
\* with answer.rows, or rejects it (answer.ok = FALSE)
fuzzyTextSearch(lineText, answer) ==
    IF Falsy(lineText) \/ Len(Trim(lineText)) = 0 THEN <<>>
    ELSE IF Len(Trim(StripKey(lineText))) < 3 THEN <<>>
    ELSE IF ~answer.ok THEN <<>>
    ELSE LET results == Slice(answer.rows, HIST_LIMIT)
         IN  [i \in 1..Len(results) |->
                 [ID |-> results[i],
                  confidence |-> FUZZY_DEFAULT_CONFIDENCE,
                  strategy |-> "FUZZY_TEXT"]]

\* a loop that numbers the ranks from 0
StoredFromRankZero(crn, matches) ==
    [i \in 1..(IF Len(matches) < STORE_TOP THEN Len(matches) ELSE STORE_TOP) |->
        [line |-> crn,
         rank |-> i - 1,
         historical |-> matches[i].ID,
         confidence |-> matches[i].confidence]]

\* for (let i = 0; i < Math.min(3, matches.length); i++) INSERT LineMatch
\* with rank i + 1
StoredMatches(crn, matches) ==
    [i \in 1..(IF Len(matches) < STORE_TOP THEN Len(matches) ELSE STORE_TOP) |->
        [line |-> crn,
         rank |-> i,
         historical |-> matches[i].ID,
         confidence |-> matches[i].confidence]]

\* the BankStatementLine row after the loop body: inserted with matched
\* false, updated from matches[0] when there are matches
StoredLine(crn, lineText, matches) ==
    IF Len(matches) > 0
    THEN [crn |-> crn, lineText |-> lineText, matched |-> TRUE,
          matchedHistorical |-> matches[1].ID,
          matchConfidence |-> matches[1].confidence]
    ELSE [crn |-> crn, lineText |-> lineText, matched |-> FALSE,
          matchedHistorical |-> 0, matchConfidence |-> 0]

\* answers of the Historical query: it is rejected, or delivers the ids of
\* the matching rows
HistoricalAnswers ==
    {[ok |-> FALSE, rows |-> <<>>]}
        \cup {[ok |-> TRUE, rows |-> r] : r \in SeqsUpTo(Ids, MaxMatching)}

\* the Vwezw texts addStatement is called with
StatementNotes ==
    { NULL,
      <<"B", "O", ":", "A", "C", "M", "E">>,
      <<"B", "O", ":", "A", "C">>,
      <<"A", "C", "M", "E", CR, LF, "B", "N", ":", "A", "C", "M", "E", LF>>,
      <<"b", "o", ":", "7", LF, SP, SP, LF, "T", "R", "I", "D", ":", "9", "9", "8">> }

(***************************************************************************)
(* syncEmails (email sync service)                                         *)
(***************************************************************************)
MessageIds == 1..NumMessages

SyncProcs == 1..NumSyncs

IdleSync == [pc |-> "idle", emails |-> <<>>, newEmails |-> <<>>]

\* emails.filter(e => !existingIds.has(e.id)) for the ids the SELECT found
\* in the cache
NewEmails(emails, rows) ==
    LET existingIds == {rows[i].messageId : i \in 1..Len(rows)}
        IsNew(id) == id \notin existingIds
    IN  SelectSeq(emails, IsNew)

\* newEmails.map(email => prepareEmailRecord(email, syncBatchId))
EmailRecords(newEmails, p) ==
    [i \in 1..Len(newEmails) |-> [messageId |-> newEmails[i], syncBatchId |-> p]]

StoreIdle ==
    /\ asPc = "idle"
    /\ asLines = <<>>
    /\ asIndex = 0
    /\ asFound = <<>>
    /\ stHeader = "none"
    /\ stLines = <<>>
    /\ stMatches = <<>>
    /\ sync = [p \in SyncProcs |-> IdleSync]
    /\ cache = <<>>

(***************************************************************************)
(* One invocation of searchLine                                            *)
(***************************************************************************)
MatchIdle ==
    /\ slPc = "idle"
    /\ slText = NULL
    /\ strat = [s \in StrategySet |-> IdleStrat]
    /\ slResult = <<>>
    /\ dbConnects = 0

ParseIdle ==
    /\ parsePc = "idle"
    /\ lines = <<>>
    /\ extraction = NoResult

NoEmail == [subject |-> NULL]

NoArgs == [companyName |-> NULL, amount |-> 0, valueDate |-> 0,
           daysBefore |-> 0, daysAfter |-> 0]

NoRange == [startDate |-> 0, endDate |-> 0, passed |-> FALSE]

ScoreIdle ==
    /\ sePc = "idle"
    /\ seKind = "cached"
    /\ seEmail = NoEmail
    /\ seCompany = NULL
    /\ seAmount = 0
    /\ seScore = 0
    /\ seFormatted = NoEmail

SearchIdle ==
    /\ esPc = "idle"
    /\ esKind = "cached"
    /\ esArgs = NoArgs
    /\ esRange = NoRange
    /\ esQueries = 0
    /\ esRows = <<>>
    /\ esResult = <<>>
    /\ esError = "none"

SummaryIdle ==
    /\ paPc = "idle"
    /\ paSummary = NULL
    /\ paResult = NoFields

ChainIdle ==
    /\ ccPc = "idle"
    /\ ccResponse = NULL
    /\ ccResult = NoResult
    /\ llmCalls = 0

InitMatch ==
    /\ MatchIdle
    /\ StoreIdle
    /\ ParseIdle
    /\ ScoreIdle
    /\ SearchIdle
    /\ SummaryIdle
    /\ ChainIdle
    /\ note = NULL
    /\ llm = "up"

\* searchLine is entered: the guard on the text, then the connection request
SearchLineCall ==
    /\ slPc = "idle"
    /\ \E text \in TextInputs :
        /\ slText' = text
        /\ IF TooShort(text)
           THEN /\ slPc' = "returned"
                /\ slResult' = <<>>
                /\ dbConnects' = dbConnects
           ELSE /\ slPc' = "connecting"
                /\ slResult' = slResult
                /\ dbConnects' = dbConnects + 1
    /\ UNCHANGED <<strat, parseVars, scoreVars, searchVars, summaryVars, chainVars, storeVars>>

\* await cds.connect.to('db') resolves: Promise.all starts the three calls
ConnectResolved ==
    /\ slPc = "connecting"
    /\ slPc' = "running"
    /\ strat' = [s \in StrategySet |-> StartCall(strat[s], slText)]
    /\ UNCHANGED <<slText, slResult, dbConnects, parseVars, scoreVars, searchVars, summaryVars, chainVars, storeVars>>

\* await cds.connect.to('db') rejects, outside the try block
ConnectRejected ==
    /\ slPc = "connecting"
    /\ slPc' = "rejected"
    /\ UNCHANGED <<slText, strat, slResult, dbConnects, parseVars, scoreVars, searchVars, summaryVars, chainVars, storeVars>>

\* db.run of one strategy delivers rows and the mapping succeeds
StrategyResolved(s) ==
    /\ slPc = "running"
    /\ strat[s].status = "pending"
    /\ \E rows \in RowSeqs(MaxHits) :
        /\ TotalHits(strat) + Len(rows) <= MaxTotalHits
        /\ strat' = [strat EXCEPT ![s].status = "ok", ![s].rows = rows]
    /\ UNCHANGED <<slPc, slText, slResult, dbConnects, parseVars, scoreVars, searchVars, summaryVars, chainVars, storeVars>>

\* one strategy fails: db.run rejects (no rows), or an error is thrown
\* while the delivered rows are mapped; the catch turns either into []
StrategyFailed(s) ==
    /\ slPc = "running"
    /\ strat[s].status = "pending"
    /\ \E rows \in RowSeqs(MaxHits) :
        /\ TotalHits(strat) + Len(rows) <= MaxTotalHits
        /\ strat' = [strat EXCEPT ![s].status = "failed", ![s].rows = rows]
    /\ UNCHANGED <<slPc, slText, slResult, dbConnects, parseVars, scoreVars, searchVars, summaryVars, chainVars, storeVars>>

\* Promise.all resolved: merge, deduplicate, filter, sort, return
SearchLineMerge ==
    /\ slPc = "running"
    /\ AllSettled(strat)
    /\ slResult' = MergeMatches(strat)
    /\ slPc' = "returned"
    /\ UNCHANGED <<slText, strat, dbConnects, parseVars, scoreVars, searchVars, summaryVars, chainVars, storeVars>>

NextMatch ==
    \/ SearchLineCall
    \/ ConnectResolved
    \/ ConnectRejected
    \/ \E s \in StrategySet : StrategyResolved(s)
    \/ \E s \in StrategySet : StrategyFailed(s)
    \/ SearchLineMerge

SpecMatch == InitMatch /\ [][NextMatch]_vars

(***************************************************************************)
(* The parser and the extractor applied to a note                          *)
(***************************************************************************)
InitParse ==
    /\ MatchIdle
    /\ StoreIdle
    /\ ParseIdle
    /\ ScoreIdle
    /\ SearchIdle
    /\ SummaryIdle
    /\ ChainIdle
    /\ note \in NoteInputs
    /\ llm \in {"up", "down"}

\* parsePaymentNotes(note)
ParseNotes ==
    /\ parsePc = "idle"
    /\ lines' = parsePaymentNotes(note)
    /\ parsePc' = "parsed"
    /\ UNCHANGED <<note, extraction, llm, matchVars, scoreVars, searchVars, summaryVars, chainVars, storeVars>>

\* extractCompanyName applied to the parsed lines
ExtractCompany ==
    /\ parsePc = "parsed"
    /\ \E amount \in Amounts :
        extraction' = extractCompanyName(lines, amount)
    /\ parsePc' = "extracted"
    /\ UNCHANGED <<note, lines, llm, matchVars, scoreVars, searchVars, summaryVars, chainVars, storeVars>>

\* the fallback chain after the pattern rule: its result wins, else the
\* LLM stage is entered when it is reachable
ChainAfterPattern ==
    /\ parsePc = "extracted"
    /\ ccPc = "idle"
    /\ ccPc' = IF LlmStageReachable(lines, extraction) THEN "llm" ELSE "done"
    /\ UNCHANGED <<ccResponse, ccResult, llmCalls, parseVars, matchVars, scoreVars,
                   searchVars, summaryVars, storeVars>>

\* extractCompanyNameWithChatGPT(note) up to its await: the guard on the
\* note, then the chatCompletion request
LlmExtractCall ==
    /\ ccPc = "llm"
    /\ IF MissingNotes(note)
       THEN /\ ccPc' = "done"
            /\ ccResult' = NoResult
            /\ UNCHANGED llmCalls
       ELSE /\ ccPc' = "waiting"
            /\ llmCalls' = llmCalls + 1
            /\ UNCHANGED ccResult
    /\ UNCHANGED <<ccResponse, parseVars, matchVars, scoreVars, searchVars, summaryVars, storeVars>>

\* the chatCompletion request resolved with a text
LlmResponded ==
    /\ ccPc = "waiting"
    /\ llm = "up"
    /\ \E extractedText \in LlmResponses :
        /\ ccResponse' = extractedText
        /\ ccResult' = LlmResult(extractedText, note)
    /\ ccPc' = "done"
    /\ UNCHANGED <<llmCalls, parseVars, matchVars, scoreVars, searchVars, summaryVars, storeVars>>

\* the chatCompletion request failed: the catch logs and returns null
LlmFailed ==
    /\ ccPc = "waiting"
    /\ ccResult' = NoResult
    /\ ccPc' = "done"
    /\ UNCHANGED <<ccResponse, llmCalls, parseVars, matchVars, scoreVars, searchVars,
                   summaryVars, storeVars>>

NextParse ==
    \/ ParseNotes
    \/ ExtractCompany
    \/ ChainAfterPattern
    \/ LlmExtractCall
    \/ LlmResponded
    \/ LlmFailed

SpecParse == InitParse /\ [][NextParse]_vars

(***************************************************************************)
(* The note-consuming stages called directly on a raw note                 *)
(***************************************************************************)
\* extractCompanyName called directly with a list of the caller's making
InitExtract ==
    /\ MatchIdle
    /\ StoreIdle
    /\ ScoreIdle
    /\ SearchIdle
    /\ SummaryIdle
    /\ ChainIdle
    /\ note = NULL
    /\ llm = "up"
    /\ parsePc = "parsed"
    /\ lines \in ListInputs
    /\ extraction = NoResult

NextExtract == ExtractCompany

SpecExtract == InitExtract /\ [][NextExtract]_vars

InitStages ==
    /\ MatchIdle
    /\ StoreIdle
    /\ ParseIdle
    /\ ScoreIdle
    /\ SearchIdle
    /\ SummaryIdle
    /\ note \in NoteInputs
    /\ llm \in {"up", "down"}
    /\ ccPc = "llm"
    /\ ccResponse = NULL
    /\ ccResult = NoResult
    /\ llmCalls = 0

NextStages ==
    \/ ParseNotes
    \/ LlmExtractCall
    \/ LlmResponded
    \/ LlmFailed

SpecStages == InitStages /\ [][NextStages]_vars

(***************************************************************************)
(* The two scorers applied to an email                                     *)
(***************************************************************************)
InitScore ==
    /\ MatchIdle
    /\ StoreIdle
    /\ ParseIdle
    /\ SearchIdle
    /\ SummaryIdle
    /\ ChainIdle
    /\ note = NULL
    /\ llm = "up"
    /\ sePc = "idle"
    /\ seScore = 0
    /\ seFormatted = NoEmail
    /\ seCompany \in CompanyNames
    /\ seAmount \in Amounts
    /\ \/ seKind = "cached" /\ seEmail \in CachedEmails
       \/ seKind = "inbox" /\ seEmail \in InboxEmails

\* calculateRelevanceScore(email, companyName, amount, searchEmbedding)
ScoreCached ==
    /\ sePc = "idle"
    /\ seKind = "cached"
    /\ seScore' = calculateRelevanceScore(seEmail, seCompany, seAmount)
    /\ sePc' = "scored"
    /\ UNCHANGED <<seKind, seEmail, seCompany, seAmount, seFormatted, matchVars, parseVars, searchVars, summaryVars, chainVars, storeVars>>

\* calculateRelevance(email, companyName, amount)
ScoreInbox ==
    /\ sePc = "idle"
    /\ seKind = "inbox"
    /\ seScore' = calculateRelevance(seEmail, seCompany, seAmount)
    /\ sePc' = "scored"
    /\ UNCHANGED <<seKind, seEmail, seCompany, seAmount, seFormatted, matchVars, parseVars, searchVars, summaryVars, chainVars, storeVars>>

\* formatCachedEmailResults applied to the scored cached email
FormatCached ==
    /\ sePc = "scored"
    /\ seKind = "cached"
    /\ seFormatted' =
           formatCachedEmailResults(
               <<[email |-> seEmail, relevanceScore |-> seScore]>>)[1]
    /\ sePc' = "formatted"
    /\ UNCHANGED <<seKind, seEmail, seCompany, seAmount, seScore, matchVars,
                   parseVars, searchVars, summaryVars, chainVars, storeVars>>

NextScore ==
    \/ ScoreCached
    \/ ScoreInbox
    \/ FormatCached

SpecScore == InitScore /\ [][NextScore]_vars

(***************************************************************************)
(* One invocation of an email search                                       *)
(***************************************************************************)
InitSearch ==
    /\ MatchIdle
    /\ StoreIdle
    /\ ParseIdle
    /\ ScoreIdle
    /\ SearchIdle
    /\ SummaryIdle
    /\ ChainIdle
    /\ note = NULL
    /\ llm = "up"

\* searchCachedEmails up to its first await: the companyName guard, the
\* date range (toISOString throws on an Invalid Date; the catch rethrows),
\* then the embedding query
SearchCachedCall ==
    /\ esPc = "idle"
    /\ \E args \in SearchArgs :
        /\ esArgs' = args
        /\ esKind' = "cached"
        /\ esError' = CallError(args)
        /\ IF MissingCompany(args.companyName) \/ args.valueDate = INVALID_DATE
           THEN /\ esPc' = "threw"
                /\ UNCHANGED <<esRange, esQueries>>
           ELSE /\ esPc' = "embedding"
                /\ esRange' = DateRange(args.valueDate,
                                        DaysOr(args.daysBefore, CACHED_DEFAULT_DAYS),
                                        DaysOr(args.daysAfter, CACHED_DEFAULT_DAYS))
                /\ esQueries' = esQueries + 1
    /\ UNCHANGED <<esRows, esResult, matchVars, parseVars, scoreVars, summaryVars, chainVars, storeVars>>

\* the embedding query resolved: without an embedding the search throws,
\* with one it issues the similarity query over the date range
EmbeddingResolved ==
    /\ esPc = "embedding"
    /\ \E hasEmbedding \in BOOLEAN :
        IF hasEmbedding
        THEN /\ esPc' = "querying"
             /\ esRange' = [esRange EXCEPT !.passed = TRUE]
             /\ esQueries' = esQueries + 1
             /\ UNCHANGED esError
        ELSE /\ esPc' = "threw"
             /\ esError' = "no embedding"
             /\ UNCHANGED <<esRange, esQueries>>
    /\ UNCHANGED <<esKind, esArgs, esRows, esResult, matchVars, parseVars, scoreVars, summaryVars, chainVars, storeVars>>

\* a db.run of searchCachedEmails rejected: the catch logs and rethrows
CachedQueryRejected ==
    /\ esKind = "cached"
    /\ esPc \in {"embedding", "querying"}
    /\ esPc' = "threw"
    /\ \E message \in BackendErrors : esError' = message
    /\ UNCHANGED <<esKind, esArgs, esRange, esQueries, esRows, esResult,
                   matchVars, parseVars, scoreVars, summaryVars, chainVars, storeVars>>

\* the similarity query resolved: score, sort, top 10
CachedQueryResolved ==
    /\ esKind = "cached"
    /\ esPc = "querying"
    /\ \E rows \in QueryAnswers(esRange) :
        /\ esRows' = rows
        /\ esResult' = RankCached(rows, esArgs.companyName, esArgs.amount)
    /\ esPc' = "returned"
    /\ UNCHANGED <<esKind, esArgs, esRange, esQueries, esError, matchVars, parseVars, scoreVars, summaryVars, chainVars, storeVars>>

\* searchInbox up to its await: the companyName guard, the date range (it
\* is logged, the request carries only $search, $top and $select), then
\* the Graph API request
SearchInboxCall ==
    /\ esPc = "idle"
    /\ \E args \in SearchArgs :
        /\ esArgs' = args
        /\ esKind' = "inbox"
        /\ esError' = CallError(args)
        /\ IF MissingCompany(args.companyName) \/ args.valueDate = INVALID_DATE
           THEN /\ esPc' = "threw"
                /\ UNCHANGED <<esRange, esQueries>>
           ELSE /\ esPc' = "querying"
                /\ esRange' = DateRange(args.valueDate,
                                        DaysOr(args.daysBefore, INBOX_DEFAULT_DAYS),
                                        DaysOr(args.daysAfter, INBOX_DEFAULT_DAYS))
                /\ esQueries' = esQueries + 1
    /\ UNCHANGED <<esRows, esResult, matchVars, parseVars, scoreVars, summaryVars, chainVars, storeVars>>

\* the Graph API request resolved: score and sort
InboxResolved ==
    /\ esKind = "inbox"
    /\ esPc = "querying"
    /\ \E rows \in InboxAnswers :
        /\ esRows' = rows
        /\ esResult' = RankInbox(rows, esArgs.companyName, esArgs.amount)
    /\ esPc' = "returned"
    /\ UNCHANGED <<esKind, esArgs, esRange, esQueries, esError, matchVars, parseVars, scoreVars, summaryVars, chainVars, storeVars>>

\* the Graph API request rejected: an error whose message mentions
\* 'not found' or 'destination' gives [], any other error is rethrown
InboxRejected ==
    /\ esKind = "inbox"
    /\ esPc = "querying"
    /\ \E message \in BackendErrors :
        /\ esError' = message
        /\ IF DegradesToEmpty(message)
           THEN esPc' = "returned" /\ esResult' = <<>>
           ELSE esPc' = "threw" /\ esResult' = esResult
    /\ UNCHANGED <<esKind, esArgs, esRange, esQueries, esRows, matchVars, parseVars, scoreVars, summaryVars, chainVars, storeVars>>

NextSearch ==
    \/ SearchCachedCall
    \/ EmbeddingResolved
    \/ CachedQueryRejected
    \/ CachedQueryResolved
    \/ SearchInboxCall
    \/ InboxResolved
    \/ InboxRejected

SpecSearch == InitSearch /\ [][NextSearch]_vars

(***************************************************************************)
(* parseActionItems applied to an LLM response                             *)
(***************************************************************************)
InitSummary ==
    /\ MatchIdle
    /\ StoreIdle
    /\ ParseIdle
    /\ ScoreIdle
    /\ SearchIdle
    /\ ChainIdle
    /\ note = NULL
    /\ llm = "up"
    /\ paPc = "idle"
    /\ paSummary \in SummaryInputs
    /\ paResult = NoFields

\* parseActionItems(summary)
ParseActionItemsCall ==
    /\ paPc = "idle"
    /\ paResult' = parseActionItems(paSummary)
    /\ paPc' = "returned"
    /\ UNCHANGED <<paSummary, matchVars, parseVars, scoreVars, searchVars, chainVars, storeVars>>

NextSummary == ParseActionItemsCall

SpecSummary == InitSummary /\ [][NextSummary]_vars

(***************************************************************************)
(* One invocation of addStatement                                          *)
(***************************************************************************)
InitStatement ==
    /\ MatchIdle
    /\ StoreIdle
    /\ ParseIdle
    /\ ScoreIdle
    /\ SearchIdle
    /\ SummaryIdle
    /\ ChainIdle
    /\ note = NULL
    /\ llm = "up"

\* the handler is entered: the notes are parsed and the header inserted
AddStatementCall ==
    /\ asPc = "idle"
    /\ \E vwezw \in StatementNotes : asLines' = StatementLines(vwezw)
    /\ stHeader' = "PENDING"
    /\ asPc' = "lines"
    /\ UNCHANGED <<asIndex, asFound, stLines, stMatches, syncVars, matchVars,
                   parseVars, scoreVars, searchVars, summaryVars, chainVars>>

\* one pass of the loop: insert the line, search, store the top matches,
\* update the line from the first match
ProcessLine ==
    /\ asPc = "lines"
    /\ asIndex < Len(asLines)
    /\ \E answer \in HistoricalAnswers :
        LET crn == asIndex + 1
            lineText == asLines[crn]
            matches == fuzzyTextSearch(lineText, answer)
        IN  /\ asFound' = Append(asFound, matches)
            /\ stMatches' = stMatches \o StoredMatches(crn, matches)
            /\ stLines' = Append(stLines, StoredLine(crn, lineText, matches))
            /\ asIndex' = crn
    /\ UNCHANGED <<asPc, asLines, stHeader, syncVars, matchVars, parseVars,
                   scoreVars, searchVars, summaryVars, chainVars>>

\* after the loop: the header gets its match status and the handler returns
FinishStatement ==
    /\ asPc = "lines"
    /\ asIndex = Len(asLines)
    /\ stHeader' = IF \E i \in 1..Len(stMatches) : stMatches[i].confidence > 0
                   THEN "MATCHED" ELSE "NO_MATCH"
    /\ asPc' = "done"
    /\ UNCHANGED <<asLines, asIndex, asFound, stLines, stMatches, syncVars,
                   matchVars, parseVars, scoreVars, searchVars, summaryVars, chainVars>>

\* an INSERT or UPDATE of the handler is rejected: the catch throws, and
\* the request's transaction is rolled back
StatementFailed ==
    /\ asPc = "lines"
    /\ asPc' = "failed"
    /\ stHeader' = "none"
    /\ stLines' = <<>>
    /\ stMatches' = <<>>
    /\ UNCHANGED <<asLines, asIndex, asFound, syncVars, matchVars, parseVars,
                   scoreVars, searchVars, summaryVars, chainVars>>

NextStatement ==
    \/ AddStatementCall
    \/ ProcessLine
    \/ FinishStatement
    \/ StatementFailed

SpecStatement == InitStatement /\ [][NextStatement]_vars

(***************************************************************************)
(* Invocations of syncEmails, which may overlap                            *)
(***************************************************************************)
InitSync ==
    /\ MatchIdle
    /\ StoreIdle
    /\ ParseIdle
    /\ ScoreIdle
    /\ SearchIdle
    /\ SummaryIdle
    /\ ChainIdle
    /\ note = NULL
    /\ llm = "up"

\* syncEmails is entered and requests the messages of the date range
SyncCall(p) ==
    /\ sync[p].pc = "idle"
    /\ sync' = [sync EXCEPT ![p].pc = "fetching"]
    /\ UNCHANGED <<cache, statementVars, matchVars, parseVars, scoreVars,
                   searchVars, summaryVars, chainVars>>

\* the fetch resolved: without emails the invocation returns, else it
\* asks the cache for the messageIds it holds among the fetched ones
FetchResolved(p) ==
    /\ sync[p].pc = "fetching"
    /\ \E emails \in SeqsUpTo(MessageIds, MaxFetch) :
        sync' = [sync EXCEPT ![p].emails = emails,
                             ![p].pc = IF Len(emails) = 0 THEN "done" ELSE "checking"]
    /\ UNCHANGED <<cache, statementVars, matchVars, parseVars, scoreVars,
                   searchVars, summaryVars, chainVars>>

\* the SELECT resolved over the cache as it is now: the emails not found
\* are prepared; with none of them the invocation returns
ExistingResolved(p) ==
    /\ sync[p].pc = "checking"
    /\ LET newEmails == NewEmails(sync[p].emails, cache)
       IN  sync' = [sync EXCEPT ![p].newEmails = newEmails,
                                ![p].pc = IF Len(newEmails) = 0 THEN "done"
                                          ELSE "inserting"]
    /\ UNCHANGED <<cache, statementVars, matchVars, parseVars, scoreVars,
                   searchVars, summaryVars, chainVars>>

\* the INSERT of the prepared records resolved
InsertResolved(p) ==
    /\ sync[p].pc = "inserting"
    /\ cache' = cache \o EmailRecords(sync[p].newEmails, p)
    /\ sync' = [sync EXCEPT ![p].pc = "done"]
    /\ UNCHANGED <<statementVars, matchVars, parseVars, scoreVars, searchVars,
                   summaryVars, chainVars>>

\* the fetch or a database call was rejected: the catch returns the
\* failure result and nothing is stored
SyncRejected(p) ==
    /\ sync[p].pc \in {"fetching", "checking", "inserting"}
    /\ sync' = [sync EXCEPT ![p].pc = "failed"]
    /\ UNCHANGED <<cache, statementVars, matchVars, parseVars, scoreVars,
                   searchVars, summaryVars, chainVars>>

NextSync ==
    \/ \E p \in SyncProcs : SyncCall(p)
    \/ \E p \in SyncProcs : FetchResolved(p)
    \/ \E p \in SyncProcs : ExistingResolved(p)
    \/ \E p \in SyncProcs : InsertResolved(p)
    \/ \E p \in SyncProcs : SyncRejected(p)

SpecSync == InitSync /\ [][NextSync]_vars

(***************************************************************************)
(* Properties of searchLine                                                *)
(***************************************************************************)
Returned == slPc = "returned"

\* the invocation got past the length guard and merged strategy results
Merged == Returned /\ \A s \in StrategySet : strat[s].status \in {"ok", "failed"}

SetMax(S) == CHOOSE x \in S : \A y \in S : y <= x

\* the candidates the strategies that succeeded handed to the merge step
OkCandidates ==
    UNION { { [ID |-> strat[s].rows[i].ID,
               confidence |-> Confidence(strat[s].rows[i].score),
               matchStrategy |-> s] : i \in 1..Len(strat[s].rows) }
            : s \in {t \in StrategySet : strat[t].status = "ok"} }

ResultEntries == {slResult[i] : i \in 1..Len(slResult)}

\* C1: every candidate in the list returned by searchLine has
\* confidence >= 85, whatever the three strategies returned.
C1_ResultAtLeastThreshold ==
    Returned => \A i \in 1..Len(slResult) : slResult[i].confidence >= 850

\* a strategy delivered a candidate below 85 next to one that qualified
C1_Witness ==
    /\ Merged
    /\ slResult # <<>>
    /\ \E c \in OkCandidates : c.confidence < 850

\* C2: no two candidates of the list returned by searchLine have the same
\* ID, also when an id comes from several strategies or is repeated inside
\* one strategy's result.
C2_ResultIdsUnique ==
    Returned =>
        \A i, j \in 1..Len(slResult) :
            slResult[i].ID = slResult[j].ID => i = j

\* the same qualifying id was delivered twice by one strategy and once
\* more by another
C2_Witness ==
    /\ Merged
    /\ \E s, t \in StrategySet :
        /\ s # t
        /\ strat[s].status = "ok" /\ strat[t].status = "ok"
        /\ Len(strat[s].rows) = 2 /\ Len(strat[t].rows) = 1
        /\ strat[s].rows[1].ID = strat[s].rows[2].ID
        /\ strat[t].rows[1].ID = strat[s].rows[1].ID
        /\ \E i \in 1..Len(slResult) : slResult[i].ID = strat[s].rows[1].ID

\* C3: the list returned by searchLine is sorted non-increasing by
\* confidence.
C3_ResultSortedDescending ==
    Returned =>
        \A i \in 1..(Len(slResult) - 1) :
            slResult[i].confidence >= slResult[i + 1].confidence

\* the qualifying candidates arrived in ascending order and were reordered
C3_Witness ==
    /\ Merged
    /\ Len(slResult) >= 2
    /\ slResult[1].confidence > slResult[2].confidence
    /\ \E s \in StrategySet :
        /\ strat[s].status = "ok"
        /\ Len(strat[s].rows) = 2
        /\ Confidence(strat[s].rows[1].score) >= 850
        /\ Confidence(strat[s].rows[1].score) < Confidence(strat[s].rows[2].score)
        /\ strat[s].rows[1].ID # strat[s].rows[2].ID

\* C4: for every id returned by at least one strategy, the result contains
\* the id iff the maximum confidence over its instances is >= 85, and then
\* exactly once, with that maximum as its confidence.
C4_BestInstancePerId ==
    Merged =>
        \A id \in Ids :
            LET confs == {c.confidence : c \in {d \in OkCandidates : d.ID = id}}
                at == {i \in 1..Len(slResult) : slResult[i].ID = id}
            IN  confs # {} =>
                    IF SetMax(confs) >= 850
                    THEN /\ Cardinality(at) = 1
                         /\ \A i \in at : slResult[i].confidence = SetMax(confs)
                    ELSE at = {}

\* three strategies returned the same id at 90, 70 and 95: one entry at 95
C4_Witness ==
    /\ Merged
    /\ strat["FUZZY_TEXT"].status = "ok"
    /\ strat["FUZZY_TEXT"].rows = <<[ID |-> 1, score |-> 857]>>
    /\ strat["VECTOR_SEMANTIC"].status = "ok"
    /\ strat["VECTOR_SEMANTIC"].rows = <<[ID |-> 1, score |-> 286]>>
    /\ strat["OPENAI_EMBEDDING"].status = "ok"
    /\ strat["OPENAI_EMBEDDING"].rows = <<[ID |-> 1, score |-> 1000]>>
    /\ slResult = <<[ID |-> 1, confidence |-> 950,
                     matchStrategy |-> "OPENAI_EMBEDDING"]>>

SomeStrategyFailed == \E s \in StrategySet : strat[s].status = "failed"

\* C5: when any subset of the strategies fails during one invocation,
\* searchLine still returns a list (it is never rejected because of a
\* strategy), and the list is the merged, deduplicated, filtered and sorted
\* result of the strategies that succeeded; a failed strategy contributes
\* no candidate.
C5_FailureIsolation ==
    /\ (slPc = "rejected" => \A s \in StrategySet : strat[s].calls = 0)
    /\ (Merged /\ SomeStrategyFailed) =>
        /\ ResultEntries \subseteq OkCandidates
        /\ \A c \in OkCandidates :
              c.confidence >= 850 =>
                  \E r \in ResultEntries :
                      r.ID = c.ID /\ r.confidence >= c.confidence
        /\ \A i, j \in 1..Len(slResult) :
              /\ (slResult[i].ID = slResult[j].ID => i = j)
              /\ (i < j => slResult[i].confidence >= slResult[j].confidence)

\* one strategy failed after its backend had delivered a qualifying row,
\* the other two succeeded and their candidates were returned
C5_Witness ==
    /\ Merged
    /\ slResult # <<>>
    /\ \E s \in StrategySet :
        /\ strat[s].status = "failed"
        /\ \E i \in 1..Len(strat[s].rows) :
              Confidence(strat[s].rows[i].score) >= 850
        /\ \A t \in StrategySet \ {s} : strat[t].status = "ok"

(***************************************************************************)
(* Properties of the line parser                                           *)
(***************************************************************************)
Parsed == parsePc \in {"parsed", "extracted"}

MatchableTypes == {"BO", "BO1", "BO2", "ORDER", "SENDING", "DETAILS"}

\* C6: for every line parsePaymentNotes produces, searchText is non-null
\* if and only if lineType is BO, BO1, BO2, ORDER, SENDING or DETAILS; for
\* every other known type and for OTHER it is null.
C6_SearchTextIffMatchable ==
    Parsed =>
        \A i \in 1..Len(lines) :
            (lines[i].searchText # NULL) <=> (lines[i].lineType \in MatchableTypes)

\* the physical lines of a text, read in one pass: a backslash followed by
\* n, CR LF, CR and LF each end a line (done: the lines read so far, cur:
\* the line being read)
RECURSIVE ScanLines(_, _, _)
ScanLines(s, done, cur) ==
    IF s = <<>> THEN Append(done, cur)
    ELSE IF Len(s) >= 2 /\ ((s[1] = BSL /\ s[2] = "n") \/ (s[1] = CR /\ s[2] = LF))
         THEN ScanLines(SubSeq(s, 3, Len(s)), Append(done, cur), <<>>)
    ELSE IF s[1] \in {CR, LF}
         THEN ScanLines(Tail(s), Append(done, cur), <<>>)
    ELSE ScanLines(Tail(s), done, Append(cur, s[1]))

PhysicalLines(s) == ScanLines(s, <<>>, <<>>)

\* the trimmed, non-empty physical lines of a note, in input order
ExpectedLines(raw) ==
    IF Falsy(raw) THEN <<>>
    ELSE LET pieces == PhysicalLines(raw)
         IN  SelectSeq([i \in 1..Len(pieces) |-> Trim(pieces[i])], NonEmpty)

\* C10: parsePaymentNotes returns exactly one ParsedLine per non-empty
\* trimmed physical line of the note (lines ended by a literal \n, CRLF, CR
\* or LF), in input order, numbered 1..n, each carrying the trimmed line as
\* its text; no two physical lines are merged.
C10_OneLinePerPhysicalLine ==
    Parsed =>
        /\ Len(lines) = Len(ExpectedLines(note))
        /\ \A i \in 1..Len(lines) :
              /\ lines[i].lineNo = i
              /\ lines[i].lineText = ExpectedLines(note)[i]
              /\ lines[i].lineText # <<>>
              /\ \A k \in 1..Len(lines[i].lineText) :
                    lines[i].lineText[k] \notin {CR, LF}

\* a note whose second physical line, set off by a literal \n, starts with
\* no known pattern and is still a line of its own
C10_Witness ==
    /\ Parsed
    /\ note # NULL
    /\ Len(lines) = 2
    /\ lines[2].lineType = "OTHER"
    /\ \E k \in 1..(Len(note) - 1) : note[k] = BSL /\ note[k + 1] = "n"

(***************************************************************************)
(* Properties of the company name extractor                                *)
(***************************************************************************)
Extracted == parsePc = "extracted"

\* the positions <<a, b>> of the name that follows the first BO1: marker of
\* a line: it starts at the first non-blank character after the marker,
\* holds no BO2:/BO3: marker, does not end in white space, and is followed
\* by a BO2:/BO3: marker or by the end of the line
NameSpans(s) ==
    { span \in (1..Len(s)) \X (1..Len(s)) :
        LET a == span[1]
            b == span[2]
        IN  /\ a <= b
            /\ \E i \in 1..Len(s) :
                  /\ KeyAt(s, i, W_BO1)
                  /\ \A j \in 1..(i - 1) : ~KeyAt(s, j, W_BO1)
                  /\ a = SkipWs(s, KeyEnd(s, i, W_BO1))
            /\ \A j \in a..b : ~KeyAt(s, j, W_BO2) /\ ~KeyAt(s, j, W_BO3)
            /\ s[b] \notin WhiteSpace
            /\ \/ b = Len(s)
               \/ KeyAt(s, SkipWs(s, b + 1), W_BO2)
               \/ KeyAt(s, SkipWs(s, b + 1), W_BO3) }

\* the names of at least two characters a line offers after its BO1: marker
Bo1Names(s) ==
    { SubSeq(s, span[1], span[2]) :
        span \in {sp \in NameSpans(s) : sp[2] - sp[1] + 1 >= 2} }

\* the name begins with a BO<digits>: marker itself
LeadsWithBoMarker(name) ==
    /\ HasAt(name, 1, <<"B", "O">>)
    /\ \E d \in 3..Len(name) :
          /\ \A k \in 3..d : name[k] \in Digits
          /\ SkipWs(name, d + 1) <= Len(name)
          /\ name[SkipWs(name, d + 1)] = ":"

\* C7 as stated: whenever some line of the parsed note contains a BO1:
\* marker followed by a name of at least 2 characters, extraction returns
\* the pattern-sourced result (that name, confidence 95).
C7_PatternWheneverBo1Segment ==
    Extracted =>
        LET names == UNION {Bo1Names(lines[i].lineText) : i \in 1..Len(lines)}
        IN  names # {} =>
                /\ extraction.source = "BO1"
                /\ extraction.confidence = 95
                /\ extraction.companyName \in names

\* C7 amended: whenever the first line typed BO (a line that starts with
\* BO:) contains a BO1: marker followed by a name of at least 2 characters
\* that does not itself begin with a BO<digits>: marker, extractCompanyName
\* returns the pattern-sourced result (that name, source BO1, confidence
\* 95), whether or not the LLM is available.
C7_PatternFromFirstBoLine ==
    Extracted =>
        LET at == {i \in 1..Len(lines) : lines[i].lineType = "BO"}
        IN  at # {} =>
                LET first == CHOOSE k \in at : \A j \in at : k <= j
                IN  \A name \in Bo1Names(lines[first].lineText) :
                        ~LeadsWithBoMarker(name) =>
                            /\ extraction.source = "BO1"
                            /\ extraction.confidence = 95
                            /\ extraction.companyName = name
                            /\ extraction.fullLine = lines[first].lineText

\* the LLM is down and the name before a BO2: marker of a BO line came back
C7_Witness ==
    /\ Extracted
    /\ llm = "down"
    /\ extraction.source = "BO1"
    /\ extraction.companyName = <<"A", "C">>
    /\ \E j \in 1..Len(extraction.fullLine) : KeyAt(extraction.fullLine, j, W_BO2)

(***************************************************************************)
(* Properties of the email scorers and searches                            *)
(***************************************************************************)
\* C8: the final relevance score of both scorers, calculateRelevanceScore
\* (cached corpus) and calculateRelevance (live mailbox), lies in [0,100].
C8_ScoreWithin0To100 ==
    sePc = "scored" => (0 <= seScore /\ seScore <= 10000)

\* C9: an email search called with an absent or empty companyName raises
\* an error before any backend query is issued and returns no list.
C9_MissingCompanyIsHardError ==
    (esPc # "idle" /\ Falsy(esArgs.companyName)) =>
        /\ esPc = "threw"
        /\ esQueries = 0
        /\ esRows = <<>>
        /\ esResult = <<>>

\* searchInbox was called with the empty string as companyName and threw
C9_Witness ==
    /\ esPc = "threw"
    /\ esKind = "inbox"
    /\ esArgs.companyName = <<>>
    /\ esArgs.valueDate # INVALID_DATE
    /\ esQueries = 0

(***************************************************************************)
(* Monotonicity of the email scorers                                       *)
(***************************************************************************)
\* the bonus conditions of calculateRelevanceScore, in the order of the code
CachedConditions(email, companyName, amount) ==
    LET companyLower == toLowerCase(companyName)
        companies == ParsedItems(email.extractedCompanies)
        amounts == ParsedItems(email.extractedAmounts)
    IN  << Includes(toLowerCase(OrEmpty(email.subject)), companyLower),
           Includes(toLowerCase(OrEmpty(email.bodyPreview)), companyLower),
           /\ ParsesToList(email.extractedCompanies)
           /\ \E k \in 1..Len(companies) :
                 Includes(toLowerCase(companies[k]), companyLower),
           /\ amount # 0
           /\ ParsesToList(email.extractedAmounts)
           /\ \E k \in 1..Len(amounts) : WithinTolerance(amounts[k], amount),
           \/ Includes(toLowerCase(OrEmpty(email.fromName)), companyLower)
           \/ Includes(toLowerCase(OrEmpty(email.fromAddress)), companyLower) >>

\* the bonus conditions of calculateRelevance, in the order of the code
InboxConditions(email, companyName, amount) ==
    LET companyLower == toLowerCase(companyName)
        subject == toLowerCase(OrEmpty(email.subject))
        preview == toLowerCase(OrEmpty(email.bodyPreview))
        amountStr == AddCommas(NumToString(amount))
        amountPlain == NumToString(amount)
    IN  << Includes(subject, companyLower),
           Includes(preview, companyLower),
           amount # 0 /\ (Includes(subject, amountStr) \/ Includes(subject, amountPlain)),
           amount # 0 /\ (Includes(preview, amountStr) \/ Includes(preview, amountPlain)),
           email.hasAttachments,
           \/ Includes(toLowerCase(OrEmpty(email.from.name)), companyLower)
           \/ Includes(toLowerCase(OrEmpty(email.from.address)), companyLower) >>

\* condition vector b is a with exactly one condition turned from
\* unsatisfied to satisfied
OneMoreSatisfied(a, b) ==
    \E k \in 1..Len(a) :
        /\ ~a[k] /\ b[k]
        /\ \A j \in 1..Len(a) : j # k => a[j] = b[j]

\* the cached emails that differ from email in one attribute other than
\* the similarity
CachedVariants(email) ==
    {[email EXCEPT !.subject = x] : x \in FieldTexts}
        \cup {[email EXCEPT !.bodyPreview = x] : x \in {NULL, T_Both, T_Other}}
        \cup {[email EXCEPT !.extractedCompanies = x] : x \in CompanyLists}
        \cup {[email EXCEPT !.extractedAmounts = x] : x \in AmountLists}
        \cup {[email EXCEPT !.fromAddress = x] : x \in SenderTexts}

\* the mailbox messages that differ from email in one attribute
InboxVariants(email) ==
    {[email EXCEPT !.subject = x] : x \in FieldTexts}
        \cup {[email EXCEPT !.bodyPreview = x] : x \in FieldTexts}
        \cup {[email EXCEPT !.hasAttachments = x] : x \in BOOLEAN}
        \cup {[email EXCEPT !.from.name = x] : x \in SenderTexts}
        \cup {[email EXCEPT !.from.address = x] : x \in SenderTexts}

\* C11: for either scorer, with the email's other attributes fixed, turning
\* one bonus condition (company in subject, company in body, company in
\* extracted companies, amount match, attachments, sender contains company)
\* from unsatisfied to satisfied never lowers the final score.
C11_ScoreMonotonicInBonuses ==
    sePc = "scored" =>
        IF seKind = "cached"
        THEN \A v \in CachedVariants(seEmail) :
                OneMoreSatisfied(CachedConditions(seEmail, seCompany, seAmount),
                                 CachedConditions(v, seCompany, seAmount))
                    => calculateRelevanceScore(v, seCompany, seAmount) >= seScore
        ELSE \A v \in InboxVariants(seEmail) :
                OneMoreSatisfied(InboxConditions(seEmail, seCompany, seAmount),
                                 InboxConditions(v, seCompany, seAmount))
                    => calculateRelevance(v, seCompany, seAmount) >= seScore

\* a cached email already at 95 points was scored, and the same email with
\* the sender bonus added reaches the cap
C11_Witness ==
    /\ sePc = "scored"
    /\ seKind = "cached"
    /\ seScore = 9500
    /\ \E v \in CachedVariants(seEmail) :
          /\ OneMoreSatisfied(CachedConditions(seEmail, seCompany, seAmount),
                              CachedConditions(v, seCompany, seAmount))
          /\ calculateRelevanceScore(v, seCompany, seAmount) = 10000

(***************************************************************************)
(* Properties of parseActionItems                                          *)
(***************************************************************************)
SummaryLabels ==
    [costCenter |-> L_CostCenter, companyCode |-> L_CompanyCode,
     glAccount |-> L_GLAccount, invoice |-> L_Invoice, notes |-> L_Notes]

FieldNames == DOMAIN SummaryLabels

\* none of the five regular expressions matches the summary
NoLabelMatches(summary) ==
    \A f \in FieldNames : LabelCapture(summary, SummaryLabels[f]) = NULL

\* C12: when the response handed to parseActionItems is non-empty but
\* matches none of the five **Label**: patterns, the parser returns the raw
\* response text as notes, with costCenter, companyCode, glAccount and
\* invoice absent (returning at all, it did not throw).
C12_UnlabelledResponseBecomesNotes ==
    (paPc = "returned" /\ ~Falsy(paSummary) /\ NoLabelMatches(paSummary)) =>
        /\ paResult.notes = paSummary
        /\ paResult.costCenter = NULL
        /\ paResult.companyCode = NULL
        /\ paResult.glAccount = NULL
        /\ paResult.invoice = NULL

\* the label of field f occurs in the summary, in any letter case
LabelOccurs(summary, f) ==
    \E i \in 1..Len(summary) : HasAt(summary, i, SummaryLabels[f])

\* C18 as stated: each field is absent exactly when its label is missing
\* from the response or its captured value, trimmed, is "Not found" or "-";
\* otherwise the field equals the trimmed captured value.
C18_AbsentIffMissingOrNotFound ==
    (paPc = "returned" /\ ~Falsy(paSummary)) =>
        \A f \in FieldNames :
            LET captured == LabelCapture(paSummary, SummaryLabels[f])
                normalized ==
                    /\ captured # NULL
                    /\ Trim(captured) \in {<<"N", "o", "t", " ", "f", "o", "u", "n", "d">>, <<"-">>}
            IN  /\ paResult[f] = NULL <=> (~LabelOccurs(paSummary, f) \/ normalized)
                /\ paResult[f] # NULL => paResult[f] = Trim(captured)

\* C18 amended: each field is absent exactly when its label pattern (the
\* label, optional white space, then at least one character that is no
\* line break) matches nowhere in the response, or its captured value,
\* trimmed, is "not found" in any letter case or "-"; otherwise the field
\* equals the trimmed captured value.
C18_AbsentIffNoMatchOrNotFound ==
    (paPc = "returned" /\ ~Falsy(paSummary)) =>
        \A f \in FieldNames :
            LET captured == LabelCapture(paSummary, SummaryLabels[f])
            IN  IF captured = NULL THEN paResult[f] = NULL
                ELSE IF toLowerCase(Trim(captured)) = T_NotFound \/ Trim(captured) = <<"-">>
                     THEN paResult[f] = NULL
                     ELSE paResult[f] = Trim(captured)

\* the formatted response was parsed: two values kept, "Not found" and "-"
\* normalized to absent, the notes kept
C18_Witness ==
    /\ paPc = "returned"
    /\ paSummary = FormattedSummary
    /\ paResult = [costCenter |-> <<"1", "9">>, companyCode |-> NULL,
                   glAccount |-> <<"6", "0">>, invoice |-> NULL,
                   notes |-> <<"p", "a", "i", "d", " ", "o", "k">>]

(***************************************************************************)
(* Backend failures during an email search                                 *)
(***************************************************************************)
\* a backend call of the search failed: it rejected, or the embedding
\* query delivered no embedding
BackendFailed == esError \in BackendErrors \cup {"no embedding"}

\* C13 as stated: a backend failure during an email search is caught at
\* the call site and degrades to an empty result returned to the caller;
\* it is never raised to the caller.
C13_BackendFailureGivesEmpty ==
    BackendFailed => (esPc = "returned" /\ esResult = <<>>)

\* C13 amended: a backend failure during searchCachedEmails is logged and
\* raised again to the caller; a failed mailbox call of searchInbox
\* degrades to an empty result only when the error message contains
\* 'not found' or 'destination', every other failure is raised to the
\* caller; in neither case is a partial list returned.
C13_BackendFailureMostlyRaised ==
    BackendFailed =>
        /\ esResult = <<>>
        /\ IF esKind = "inbox" /\ esError \in {"not found", "destination"}
           THEN esPc = "returned"
           ELSE esPc = "threw"

\* the mailbox call timed out and searchInbox raised the error
C13_Witness ==
    /\ esKind = "inbox"
    /\ esError = "timeout"
    /\ esPc = "threw"
    /\ esQueries = 1

(***************************************************************************)
(* The length guard of searchLine                                          *)
(***************************************************************************)
\* C15: searchLine called with null text or with text whose trimmed length
\* is less than 5 returns the empty list immediately: no database
\* connection is requested and no strategy is invoked during that call.
C15_ShortTextReturnsEmptyAtOnce ==
    (slPc # "idle" /\ (slText = NULL \/ Len(Trim(slText)) < 5)) =>
        /\ slPc = "returned"
        /\ slResult = <<>>
        /\ dbConnects = 0
        /\ \A s \in StrategySet : strat[s].calls = 0 /\ strat[s].status = "idle"

\* a text of six blanks, longer than 5 before trimming, was turned away
C15_Witness ==
    /\ slPc = "returned"
    /\ slText = <<SP, SP, SP, SP, SP, SP>>
    /\ dbConnects = 0
    /\ slResult = <<>>

(***************************************************************************)
(* Properties of the LLM stage and of the fallback chain                   *)
(***************************************************************************)
LlmStageDone == ccPc = "done"

\* C14 as stated: invoking a note-consuming stage (parsePaymentNotes,
\* extractCompanyNameWithChatGPT) with absent or empty raw note text
\* surfaces an error to the caller instead of returning an empty or absent
\* result.
C14_MissingNoteIsHardError ==
    Falsy(note) =>
        /\ parsePc \in {"idle", "threw"}
        /\ ccPc \in {"llm", "threw"}

\* C14 amended: absent or empty raw note text is tolerated by the
\* note-consuming stages: parsePaymentNotes returns the empty list and
\* extractCompanyNameWithChatGPT returns no-result without sending a
\* request to the LLM; neither raises an error.
C14_MissingNoteGivesEmpty ==
    Falsy(note) =>
        /\ parsePc \in {"idle", "parsed"}
        /\ (parsePc = "parsed" => lines = <<>>)
        /\ ccPc \in {"llm", "done"}
        /\ (LlmStageDone => ccResult = NoResult)
        /\ llmCalls = 0

\* both stages were called with the empty string and returned
C14_Witness ==
    /\ note = <<>>
    /\ parsePc = "parsed"
    /\ LlmStageDone
    /\ llmCalls = 0

C17_LlmStageResult ==
    /\ ccPc \in {"idle", "llm", "waiting", "done"}
    /\ (LlmStageDone /\ llmCalls > 0) =>
        IF ccResponse = NULL THEN ccResult = NoResult
        ELSE IF Trim(ccResponse) = <<"N", "O", "N", "E">> \/ Len(Trim(ccResponse)) < 2
             THEN ccResult = NoResult
             ELSE /\ ccResult.source = "CHATGPT"
                  /\ ccResult.companyName = Trim(ccResponse)
                  /\ ccResult.confidence = 90

\* the LLM answered NONE with white space around it and the stage
\* returned no-result
C17_Witness ==
    /\ LlmStageDone
    /\ llmCalls = 1
    /\ ccResponse = <<" ", "N", "O", "N", "E", "\n">>
    /\ ccResult = NoResult

\* the positions of the queried rows that are not among the returned emails
RowsNotReturned ==
    {k \in 1..Len(esRows) :
        \A j \in 1..Len(esResult) : esResult[j].email # esRows[k]}

\* C19: searchCachedEmails returns the top 10 of the queried candidates by
\* combined score: at most 10 emails, all of them queried rows, as many as
\* there are rows up to 10, in non-increasing order of relevanceScore, and
\* every returned email scores at least as high as every queried row that
\* is not returned.
C19_CachedTopTenByScore ==
    (esKind = "cached" /\ esPc = "returned") =>
        /\ Len(esResult) <= 10
        /\ Len(esResult) = (IF Len(esRows) < 10 THEN Len(esRows) ELSE 10)
        /\ \A j \in 1..Len(esResult) :
              /\ \E k \in 1..Len(esRows) : esResult[j].email = esRows[k]
              /\ esResult[j].relevanceScore =
                     calculateRelevanceScore(esResult[j].email,
                                             esArgs.companyName, esArgs.amount)
        /\ \A i, j \in 1..Len(esResult) :
              i < j => esResult[i].relevanceScore >= esResult[j].relevanceScore
        /\ \A k \in RowsNotReturned : \A j \in 1..Len(esResult) :
              esResult[j].relevanceScore >=
                  calculateRelevanceScore(esRows[k], esArgs.companyName,
                                          esArgs.amount)

\* the query delivered 11 rows, 10 were returned, and the row left out is
\* not the last row of the query: a row of lower similarity outranks it
C19_Witness ==
    /\ esKind = "cached"
    /\ esPc = "returned"
    /\ Len(esRows) = 11
    /\ Len(esResult) = 10
    /\ RowsNotReturned # {}
    /\ 11 \notin RowsNotReturned

\* C20: each email search hands the date range [center - daysBefore,
\* center + daysAfter] to its query collaborator, so that no email it
\* returns was received outside that window.
C20_ReturnedInsideWindow ==
    (esPc = "returned" /\ esError = "none") =>
        /\ esRange.passed
        /\ esRange.startDate =
               esArgs.valueDate
                 - DaysOr(esArgs.daysBefore,
                          IF esKind = "cached" THEN CACHED_DEFAULT_DAYS
                          ELSE INBOX_DEFAULT_DAYS)
        /\ esRange.endDate =
               esArgs.valueDate
                 + DaysOr(esArgs.daysAfter,
                          IF esKind = "cached" THEN CACHED_DEFAULT_DAYS
                          ELSE INBOX_DEFAULT_DAYS)
        /\ \A j \in 1..Len(esResult) :
              /\ esResult[j].email.receivedDateTime >= esRange.startDate
              /\ esResult[j].email.receivedDateTime <= esRange.endDate

\* what holds of searchCachedEmails alone: the range goes into the query
\* and every returned email lies inside it
CachedReturnedInsideWindow ==
    (esKind = "cached" /\ esPc = "returned") =>
        /\ esRange.passed
        /\ \A j \in 1..Len(esResult) :
              /\ esResult[j].email.receivedDateTime >= esRange.startDate
              /\ esResult[j].email.receivedDateTime <= esRange.endDate

(***************************************************************************)
(* Scheduling and ordering properties of searchLine                        *)
(***************************************************************************)
SomeStrategyPending == \E s \in StrategySet : strat[s].status = "pending"

\* C22: within one searchLine invocation the merge step starts only after
\* every strategy call has settled: while some strategy call is pending
\* the invocation has neither merged nor returned, whatever the other
\* strategies have delivered.
C22_MergeAfterAllSettled ==
    SomeStrategyPending => (slPc = "running" /\ slResult = <<>>)

\* one strategy has delivered a qualifying candidate, another is still
\* pending, and searchLine is still waiting
C22_Witness ==
    /\ slPc = "running"
    /\ SomeStrategyPending
    /\ \E s \in StrategySet :
        /\ strat[s].status = "ok"
        /\ \E i \in 1..Len(strat[s].rows) :
              Confidence(strat[s].rows[i].score) >= 850

\* C23: no retries: in an invocation with text of trimmed length >= 5 each
\* strategy is invoked exactly once, with the text searchLine was called
\* with, and never a second time, also after it failed.
C23_EachStrategyOnce ==
    /\ \A s \in StrategySet : strat[s].calls <= 1
    /\ (slPc \in {"running", "returned"} /\ ~TooShort(slText)) =>
           \A s \in StrategySet :
               strat[s].calls = 1 /\ strat[s].arg = slText

\* searchLine returned after one strategy had failed, called once
C23_Witness ==
    /\ Merged
    /\ ~TooShort(slText)
    /\ \E s \in StrategySet : strat[s].status = "failed" /\ strat[s].calls = 1

\* the position at which an id first appears in a list of matches
FirstSeen(m, id) == CHOOSE i \in 1..Len(m) :
                        m[i].ID = id /\ \A k \in 1..(i - 1) : m[k].ID # id

\* C24: ties are resolved by first-seen order: two candidates of the result
\* with equal confidence stand in the order in which their ids first
\* appear in the concatenation fuzzy, SAP vector, OpenAI embedding, also
\* when the kept instance of an id came from a later strategy.
C24_TiesInFirstSeenOrder ==
    Merged =>
        \A i, j \in 1..Len(slResult) :
            (i < j /\ slResult[i].confidence = slResult[j].confidence) =>
                FirstSeen(allMatches(strat), slResult[i].ID)
                    < FirstSeen(allMatches(strat), slResult[j].ID)

\* two ids tie in the result; the first of them was first seen with a lower
\* confidence, before the other id, and its kept instance came later
C24_Witness ==
    /\ Merged
    /\ Len(slResult) = 2
    /\ slResult[1].confidence = slResult[2].confidence
    /\ LET all == allMatches(strat)
       IN  /\ Len(all) = 3
           /\ all[1].ID = slResult[1].ID
           /\ all[1].confidence < slResult[1].confidence
           /\ all[2].ID = slResult[2].ID
           /\ all[3].ID = slResult[1].ID
           /\ slResult[1].matchStrategy # all[1].matchStrategy

\* C29: searchLine never rejects: whatever the text and the backends do,
\* a failure to obtain the database connection included, the call
\* completes by returning a list.
C29_SearchLineNeverRejects == slPc # "rejected"

(***************************************************************************)
(* Classification order and the extracted name                             *)
(***************************************************************************)
\* the positions of the table whose pattern matches the line
MatchingPatterns(lineText) ==
    {k \in 1..Len(LINE_PATTERNS) : PatternTest(LINE_PATTERNS[k], lineText)}

\* C25: classification is first-match-wins in declared table order: a
\* line's type is that of the first pattern of the table that matches it
\* and OTHER when none does; a line that starts with BO: is typed BO also
\* when it holds BO1: and BO2: markers; and the note "BO:219062889
\* BO1:ACME LLC BO2:123 MAIN ST", line break, "TRID:998877", line break,
\* yields two lines, typed BO (searchText the full first line) and TRID
\* (searchText null).
C25_FirstMatchWins ==
    Parsed =>
        /\ \A i \in 1..Len(lines) :
              LET hits == MatchingPatterns(lines[i].lineText)
              IN  /\ (hits = {} <=> lines[i].lineType = "OTHER")
                  /\ \A k \in hits :
                        (\A j \in hits : k <= j) =>
                            lines[i].lineType = LINE_PATTERNS[k].type
                  /\ KeyAt(lines[i].lineText, 1, <<"B", "O">>) =>
                        lines[i].lineType = "BO"
        /\ note = ScenarioLine1 \o <<LF>> \o ScenarioLine2 \o <<LF>> =>
              /\ Len(lines) = 2
              /\ lines[1].lineType = "BO"
              /\ lines[1].searchText = ScenarioLine1
              /\ lines[2].lineType = "TRID"
              /\ lines[2].searchText = NULL

\* a line that starts with BO: and holds a BO1: and a BO2: marker, which
\* three patterns of the table match, was typed BO
C25_Witness ==
    /\ Parsed
    /\ \E i \in 1..Len(lines) :
        /\ Cardinality(MatchingPatterns(lines[i].lineText)) = 3
        /\ \E j \in 1..Len(lines[i].lineText) : KeyAt(lines[i].lineText, j, W_BO2)
        /\ lines[i].lineType = "BO"

\* the text of the first line typed BO, <<>> when there is none
FirstBoLineText ==
    LET at == {i \in 1..Len(lines) : lines[i].lineType = "BO"}
    IN  IF at = {} THEN <<>>
        ELSE lines[CHOOSE k \in at : \A j \in at : k <= j].lineText

\* the trimmed text of line s between its first BO1: marker and the next
\* BO2:/BO3: marker, or the end of the line when none follows
SegmentAfterBo1(s) ==
    LET at == {i \in 1..Len(s) : KeyAt(s, i, W_BO1)}
    IN  IF at = {} THEN <<>>
        ELSE LET i == CHOOSE k \in at : \A j \in at : k <= j
                 p == KeyEnd(s, i, W_BO1)
                 next == {j \in p..Len(s) : KeyAt(s, j, W_BO2) \/ KeyAt(s, j, W_BO3)}
                 e == IF next = {} THEN Len(s) + 1
                      ELSE CHOOSE k \in next : \A j \in next : k <= j
             IN  Trim(SubSeq(s, p, e - 1))

HoldsBoTail(name) ==
    \E j \in 1..Len(name) : KeyAt(name, j, W_BO2) \/ KeyAt(name, j, W_BO3)

\* C26 as stated: a name returned by extractCompanyName is the trimmed
\* substring of the first BO line between its first BO1: marker and the
\* next BO2:/BO3: marker (or the end of the line), and holds no BO2: or
\* BO3: marker.
C26_NameIsBo1Segment ==
    (Extracted /\ extraction.source = "BO1") =>
        /\ extraction.companyName = SegmentAfterBo1(FirstBoLineText)
        /\ ~HoldsBoTail(extraction.companyName)

\* the text that follows the BO<digits>: marker a name begins with
AfterLeadingMarker(name) ==
    LET ends == {d \in 3..Len(name) :
                    /\ \A k \in 3..d : name[k] \in Digits
                    /\ SkipWs(name, d + 1) <= Len(name)
                    /\ name[SkipWs(name, d + 1)] = ":"}
        d == CHOOSE k \in ends : \A j \in ends : j <= k
    IN  Trim(SubSeq(name, SkipWs(name, d + 1) + 1, Len(name)))

\* C26 amended: a name returned by extractCompanyName is the trimmed
\* substring of the first BO line between its first BO1: marker and the
\* next BO2:/BO3: marker (or the end of the line), without the
\* BO<digits>: marker it begins with when it begins with one; it holds no
\* BO2: or BO3: marker.
C26_NameIsCleanedBo1Segment ==
    (Extracted /\ extraction.source = "BO1") =>
        LET segment == SegmentAfterBo1(FirstBoLineText)
        IN  /\ extraction.companyName =
                   (IF LeadsWithBoMarker(segment)
                    THEN AfterLeadingMarker(segment) ELSE segment)
            /\ ~HoldsBoTail(extraction.companyName)

\* the name was cut off a BO2: marker that follows it without a separator
C26_Witness ==
    /\ Extracted
    /\ extraction.source = "BO1"
    /\ extraction.companyName = <<"A", "C">>
    /\ \E j \in 1..Len(extraction.fullLine) :
          /\ KeyAt(extraction.fullLine, j, W_BO2)
          /\ j > 2
          /\ SubSeq(extraction.fullLine, j - 2, j - 1) = <<"A", "C">>

\* C27: the pattern stage cannot throw: for every list of parsed lines,
\* malformed elements included, extractCompanyName returns a result or
\* no-result, and a cleaned name of fewer than 2 characters gives
\* no-result.
C27_PatternStageNeverThrows ==
    Extracted =>
        /\ extraction.source \in {"null", "BO1"}
        /\ extraction.source = "BO1" => Len(extraction.companyName) >= 2
        /\ \A i \in 1..Len(lines) :
              (/\ lines[i] = [lineType |-> "BO",
                              lineText |-> <<"B", "O", ":", "B", "O", "1", ":", "A">>]
               /\ \A j \in 1..(i - 1) :
                     lines[j].lineType \notin {"BO", "null element"})
                  => extraction = NoResult

\* a list with a null element ahead of a well-formed BO line gave no-result
C27_Witness ==
    /\ Extracted
    /\ Len(lines) >= 2
    /\ lines[1] = NullElement
    /\ lines[2] = [lineType |-> "BO", lineText |-> ScenarioLine1]
    /\ extraction = NoResult

(***************************************************************************)
(* JSON side-fields of cached emails                                       *)
(***************************************************************************)
EmptyList == [kind |-> "list", items |-> <<>>]

Malformed(field) == field.kind \in {"missing", "invalid", "notlist"}

\* C28: malformed JSON side-fields are tolerated as empty lists: for a
\* cached email whose extractedAmounts or extractedCompanies is missing,
\* is no valid JSON or is no JSON list, scoring and formatting complete,
\* the corresponding bonus is not added (the score is that of the email
\* with an empty list in the field's place), and the formatted field is
\* the empty list.
C28_MalformedSideFieldsAreEmpty ==
    /\ sePc \in {"idle", "scored", "formatted"}
    /\ (sePc = "formatted" /\ Malformed(seEmail.extractedAmounts)) =>
          /\ seScore = calculateRelevanceScore(
                           [seEmail EXCEPT !.extractedAmounts = EmptyList],
                           seCompany, seAmount)
          /\ seFormatted.extractedAmounts = EmptyList
    /\ (sePc = "formatted" /\ Malformed(seEmail.extractedCompanies)) =>
          /\ seScore = calculateRelevanceScore(
                           [seEmail EXCEPT !.extractedCompanies = EmptyList],
                           seCompany, seAmount)
          /\ seFormatted.extractedCompanies = EmptyList

\* what holds for side-fields that are missing or no valid JSON
MissingOrInvalidSideFieldsAreEmpty ==
    /\ (sePc = "formatted" /\ seEmail.extractedAmounts.kind \in {"missing", "invalid"}) =>
          seFormatted.extractedAmounts = EmptyList
    /\ (sePc = "formatted" /\ seEmail.extractedCompanies.kind \in {"missing", "invalid"}) =>
          seFormatted.extractedCompanies = EmptyList

(***************************************************************************)
(* Properties of the stored rows                                           *)
(***************************************************************************)
\* the LineMatch rows of the line with number crn
MatchesOfLine(crn) == {i \in 1..Len(stMatches) : stMatches[i].line = crn}

\* C21: for each statement line processed by addStatement at most 3
\* LineMatch rows are stored; they are the first entries of the line's
\* match list, with ranks 1..k in list order; and the line's
\* matchedHistorical and matchConfidence are those of the rank-1 entry.
C21_TopThreeStoredInOrder ==
    \A n \in 1..Len(stLines) :
        LET crn == stLines[n].crn
            of == MatchesOfLine(crn)
            k == Cardinality(of)
            list == asFound[crn]
        IN  /\ k <= 3
            /\ k = (IF Len(list) < 3 THEN Len(list) ELSE 3)
            /\ {stMatches[i].rank : i \in of} = 1..k
            /\ \A i, j \in of : i < j => stMatches[i].rank < stMatches[j].rank
            /\ \A i \in of :
                  /\ stMatches[i].historical = list[stMatches[i].rank].ID
                  /\ stMatches[i].confidence = list[stMatches[i].rank].confidence
            /\ \A i \in of :
                  stMatches[i].rank = 1 =>
                      /\ stLines[n].matched
                      /\ stLines[n].matchedHistorical = stMatches[i].historical
                      /\ stLines[n].matchConfidence = stMatches[i].confidence

\* the second line of a statement has three stored matches, the first two
\* with different historical records, and the handler has returned
C21_Witness ==
    /\ asPc = "done"
    /\ Cardinality(MatchesOfLine(2)) = 3
    /\ \E i, j \in MatchesOfLine(2) :
        /\ stMatches[i].rank = 1
        /\ stMatches[j].rank = 2
        /\ stMatches[i].historical # stMatches[j].historical
        /\ stLines[2].matchedHistorical = stMatches[i].historical

\* C30: after any sequence of syncEmails invocations, overlapping ones and
\* fetches that hold the same message more than once included, the email
\* cache holds at most one record per messageId.
C30_OneRecordPerMessageId ==
    \A i, j \in 1..Len(cache) :
        cache[i].messageId = cache[j].messageId => i = j

\* two overlapping invocations both found the message missing and each
\* stored a record of it
TwoBatchesStoredSameMessage ==
    /\ Len(cache) = 2
    /\ cache[1].messageId = cache[2].messageId
    /\ cache[1].syncBatchId # cache[2].syncBatchId

====
